---- MODULE Spec2Model ----
(***************************************************************************)
(* GradleFileDownloader: dependency parsing, repository resolution, the     *)
(* repository trial loop of download_sources / download_binary, the version *)
(* listing, the decompilation fallback, the download run of the command    *)
(* line and of the GUI main window, the chunk loop of download_file, the   *)
(* MCP repository tools, two processes on one configuration file, and the  *)
(* worker threads of the main window.                                      *)
(*                                                                         *)
(* Strings are sequences of characters.  A run of characters that no       *)
(* operation of the program looks into (a host name, "downloads",          *)
(* "-sources.jar") is written as one element.                              *)
(***************************************************************************)
EXTENDS Integers, Sequences, FiniteSets, TLC

VARIABLES
    dependency,     \* the dependency string handed to the parser / downloader
    parsed,         \* outcome of parse_dependency(dependency)
    valid,          \* outcome of validate_dependency_format(dependency)
    config,         \* ConfigManager.config["repositories"], insertion ordered
    config_file,    \* the "repositories" mapping of ~/.gradle-downloader/config.json
    ret,            \* what the last ConfigManager mutation returned
    rm_args,        \* arguments of the last RepositoryManager(...) construction
    repositories,   \* RepositoryManager.repositories
    pc,             \* position inside download_sources / download_binary
    kind,           \* "sources" or "binary": which of the two is running
    output_dir,     \* destination root of the running call
    idx,            \* position of the for loop in self.repositories
    headResp,       \* the answer to the last existence check
    log,            \* HTTP requests issued so far, in order
    files,          \* local files written by download_file
    result,         \* return value of download_sources / download_binary
    cli,            \* position of the CLI download command
    versions,       \* the list find_available_versions collects
    vpc,            \* position inside find_available_versions
    vidx,           \* position of its for loop in self.repositories
    seen,           \* what the repositories have answered to it so far
    vresult,        \* return value of find_available_versions
    cfr_file,       \* state of ~/.gradle_downloader/cfr.jar
    decompiler,     \* the JavaDecompiler object of the process
    dpc,            \* position inside decompile_and_package
    jar,            \* jar_path and output_dir of the running decompile_and_package
    temp_dir,       \* the TemporaryDirectory of decompile_and_package
    archive,        \* the sources JAR create_sources_jar writes
    dresult,        \* return value of decompile_and_package
    steps,          \* decompilation steps executed so far, in order
    gui,            \* position of the GUI main window and its download worker
    constructions,  \* the JavaDecompiler constructions made so far, in order
    mcp,            \* what the last MCP repository tool answered
    peer,           \* a second process: its ConfigManager and its last result
    transfer,       \* one download_file call, chunk by chunk
    win             \* the main window's widgets and its worker threads

vars == <<dependency, parsed, valid, config, config_file, ret, rm_args,
          repositories, pc, kind, output_dir, idx, headResp, log, files,
          result, cli, versions, vpc, vidx, seen, vresult, cfr_file,
          decompiler, dpc, jar, temp_dir, archive, dresult, steps, gui,
          constructions, mcp, peer, transfer, win>>

parseVars == <<dependency, parsed, valid>>
configVars == <<config, config_file, ret>>
managerVars == <<rm_args, repositories>>
runVars == <<pc, kind, output_dir, idx, headResp, log, files, result, cli>>
versionVars == <<versions, vpc, vidx, seen, vresult>>
callVars == <<dpc, jar, temp_dir, archive, dresult>>
decompilerVars == <<cfr_file, decompiler, callVars, steps>>
otherVars == <<mcp, peer, transfer, win>>

(***************************************************************************)
(* Bounds                                                                  *)
(***************************************************************************)
MaxLen == 6        \* longest dependency string the parser is applied to
MaxRepos == 2      \* longest explicit URL list / name list given to the resolver
MaxOps == 2        \* number of configuration mutations in one behaviour
MaxCliRepos == 1   \* number of -r / --repo-names options on a command line
MaxVersions == 2   \* most <version> elements in one metadata document
MaxFiles == 2      \* most files in the tree the decompiler process leaves
MaxConstructions == 2   \* number of JavaDecompiler constructions in one behaviour

Chars == {"g", "a", ".", ":", " "}

Strings == UNION {[1..n -> Chars] : n \in 0..MaxLen}

(***************************************************************************)
(* Python str operations                                                   *)
(***************************************************************************)
RECURSIVE Count(_, _)
Count(s, c) ==
    IF s = <<>> THEN 0
    ELSE (IF Head(s) = c THEN 1 ELSE 0) + Count(Tail(s), c)

Contains(s, c) == \E i \in 1..Len(s) : s[i] = c

RECURSIVE Split(_, _)
Split(s, c) ==
    IF ~Contains(s, c) THEN <<s>>
    ELSE LET i == CHOOSE k \in 1..Len(s) :
                      s[k] = c /\ \A j \in 1..(k - 1) : s[j] # c
         IN  <<SubSeq(s, 1, i - 1)>> \o Split(SubSeq(s, i + 1, Len(s)), c)

RECURSIVE Join(_, _)
Join(parts, c) ==
    IF parts = <<>> THEN <<>>
    ELSE IF Len(parts) = 1 THEN parts[1]
    ELSE parts[1] \o <<c>> \o Join(Tail(parts), c)

RECURSIVE Replace(_, _, _)
Replace(s, c, d) ==
    IF s = <<>> THEN <<>>
    ELSE <<IF Head(s) = c THEN d ELSE Head(s)>> \o Replace(Tail(s), c, d)

RECURSIVE LStrip(_)
LStrip(s) == IF s # <<>> /\ Head(s) = " " THEN LStrip(Tail(s)) ELSE s

RECURSIVE RStrip(_)
RStrip(s) ==
    IF s # <<>> /\ s[Len(s)] = " " THEN RStrip(SubSeq(s, 1, Len(s) - 1)) ELSE s

Strip(s) == RStrip(LStrip(s))

EndsWith(s, c) == s # <<>> /\ s[Len(s)] = c

StartsWith(s, c) == s # <<>> /\ s[1] = c

Min(S) == CHOOSE x \in S : \A y \in S : x <= y

Max(S) == CHOOSE x \in S : \A y \in S : x >= y

Digits == <<"0", "1", "2", "3", "4", "5", "6", "7", "8", "9">>

DigitValue(c) == (CHOOSE i \in 1..Len(Digits) : Digits[i] = c) - 1

\* the number a run of decimal digits denotes
RECURSIVE Number(_)
Number(s) ==
    IF s = <<>> THEN 0
    ELSE Number(SubSeq(s, 1, Len(s) - 1)) * Len(Digits) + DigitValue(s[Len(s)])

(***************************************************************************)
(* RepositoryManager.parse_dependency                                      *)
(***************************************************************************)
NotCalled ==
    [called |-> FALSE, ok |-> FALSE, exc |-> "",
     group |-> <<>>, artifact |-> <<>>, version |-> <<>>]

Raise(e) ==
    [called |-> TRUE, ok |-> FALSE, exc |-> e,
     group |-> <<>>, artifact |-> <<>>, version |-> <<>>]

Returns(g, a, v) ==
    [called |-> TRUE, ok |-> TRUE, exc |-> "",
     group |-> g, artifact |-> a, version |-> v]

\* group, artifact, version = parts : a tuple unpacking, ValueError on a
\* length mismatch
Unpack3(parts) ==
    IF Len(parts) = 3 THEN Returns(parts[1], parts[2], parts[3])
    ELSE Raise("ValueError")

\* the one-colon branch with the '.' test left out
SplitGroupArtifactNoDotTest(group_artifact, version) ==
    LET parts == Split(group_artifact, ".")
    IN  Returns(Join(SubSeq(parts, 1, Len(parts) - 1), "."),
                parts[Len(parts)], version)

\* the one-colon branch splitting at the first dot instead of the last
SplitAtFirstDot(group_artifact, version) ==
    IF Contains(group_artifact, ".")
    THEN LET parts == Split(group_artifact, ".")
         IN  Returns(parts[1], Join(Tail(parts), "."), version)
    ELSE Raise("ValueError")

\* the one-colon branch of parse_dependency: the left side is split at its
\* last dot, ValueError when it has none
SplitGroupArtifact(group_artifact, version) ==
    IF Contains(group_artifact, ".")
    THEN LET parts == Split(group_artifact, ".")
         IN  Returns(Join(SubSeq(parts, 1, Len(parts) - 1), "."),
                     parts[Len(parts)], version)
    ELSE Raise("ValueError")

parse_dependency(dep) ==
    IF Count(dep, ":") = 2 THEN Unpack3(Split(dep, ":"))
    ELSE IF Count(dep, ":") = 1
    THEN LET gv == Split(dep, ":")
         IN  IF Len(gv) = 2 THEN SplitGroupArtifact(gv[1], gv[2])
             ELSE Raise("ValueError")
    ELSE Raise("ValueError")

(***************************************************************************)
(* utils.validate_dependency_format                                        *)
(***************************************************************************)
\* the validator without the '.' test of its one-colon branch
validate_dependency_format_no_dot_test(dep) ==
    IF dep = <<>> THEN FALSE
    ELSE LET parts == Split(dep, ":")
         IN  IF Len(parts) = 2 THEN Strip(parts[2]) # <<>>
             ELSE IF Len(parts) = 3
             THEN \A i \in 1..3 : Strip(parts[i]) # <<>>
             ELSE FALSE

validate_dependency_format(dep) ==
    IF dep = <<>> THEN FALSE
    ELSE LET parts == Split(dep, ":")
         IN  IF Len(parts) = 2
             THEN Contains(parts[1], ".") /\ Strip(parts[2]) # <<>>
             ELSE IF Len(parts) = 3
             THEN \A i \in 1..3 : Strip(parts[i]) # <<>>
             ELSE FALSE

(***************************************************************************)
(* ConfigManager: the repositories mapping is a Python dict, which keeps   *)
(* its keys in insertion order; it is modelled as a sequence of            *)
(* [name, url] entries with distinct names.                                *)
(***************************************************************************)
DEFAULT_REPOSITORIES ==
    << [name |-> "maven-central", url |-> <<"https://repo1.maven.org/maven2", "/">>],
       [name |-> "apache-maven",  url |-> <<"https://repo.maven.apache.org/maven2", "/">>],
       [name |-> "jcenter",       url |-> <<"https://jcenter.bintray.com", "/">>] >>

\* names and URLs the mutations and the resolver are called with
NameInputs == {"maven-central", "apache-maven", "jcenter", "custom"}

AddUrlInputs == {<<"http://custom">>, <<"http://custom", "/">>, <<"http://mirror">>}

UrlOf(rs) == [i \in 1..Len(rs) |-> rs[i].url]

UrlInputs == {DEFAULT_REPOSITORIES[i].url : i \in 1..Len(DEFAULT_REPOSITORIES)}

SeqsUpTo(S, n) == UNION {[1..k -> S] : k \in 0..n}

Keys(d) == {d[i].name : i \in 1..Len(d)}

\* d[name] = url : an existing key keeps its place, a new key goes last
DictSet(d, name, url) ==
    IF name \in Keys(d)
    THEN [i \in 1..Len(d) |-> IF d[i].name = name THEN [name |-> name, url |-> url] ELSE d[i]]
    ELSE Append(d, [name |-> name, url |-> url])

\* del d[name]
DictDel(d, name) == SelectSeq(d, LAMBDA e : e.name # name)

\* Python's None; None and '' are both falsy, which is all the callers test
None == <<>>

\* d.get(name)
DictGet(d, name) ==
    IF name \in Keys(d)
    THEN (CHOOSE e \in {d[i] : i \in 1..Len(d)} : e.name = name).url
    ELSE None

\* ConfigManager.get_repository_url
get_repository_url(cfg, name) == DictGet(cfg, name)

\* the loop of get_repository_urls returning the configured URLs, whatever
\* the names asked for
get_repository_urls_ignoring_names(cfg, names) == UrlOf(cfg)

\* the loop of get_repository_urls giving up at the first unknown name
RECURSIVE get_repository_urls_until_unknown(_, _)
get_repository_urls_until_unknown(cfg, names) ==
    IF names = <<>> THEN <<>>
    ELSE LET url == get_repository_url(cfg, Head(names))
         IN  IF url # None
             THEN <<url>> \o get_repository_urls_until_unknown(cfg, Tail(names))
             ELSE <<>>

\* the loop of get_repository_urls: the URLs of the known names, in the
\* order of the names
RECURSIVE get_repository_urls_by_name(_, _)
get_repository_urls_by_name(cfg, names) ==
    IF names = <<>> THEN <<>>
    ELSE LET url == get_repository_url(cfg, Head(names))
             rest == get_repository_urls_by_name(cfg, Tail(names))
         IN  IF url # None THEN <<url>> \o rest ELSE rest

\* ConfigManager.get_repository_urls; names = None is passed as given = FALSE
get_repository_urls(cfg, given, names) ==
    IF ~given THEN UrlOf(cfg)
    ELSE get_repository_urls_by_name(cfg, names)

\* RepositoryManager.__init__: the value of self.repositories
RepositoryManagerInit(cfg, repos, names) ==
    IF repos # <<>> THEN repos
    ELSE IF names # <<>> THEN get_repository_urls(cfg, TRUE, names)
    ELSE get_repository_urls(cfg, FALSE, <<>>)

NoManager == [made |-> FALSE, repositories |-> <<>>, repository_names |-> <<>>, at |-> 0]

\* RepositoryManager(repositories=..., repository_names=...), called the way
\* cli.py and mcp_server.py call it: at most one of the two is given
NewRepositoryManager ==
    /\ pc = "idle"
    /\ cli.at = "none" /\ gui.at = "none"
    /\ ~rm_args.made
    /\ \E repos \in SeqsUpTo(UrlInputs, MaxRepos), names \in SeqsUpTo(NameInputs, MaxRepos) :
          /\ repos = <<>> \/ names = <<>>
          /\ rm_args' = [made |-> TRUE, repositories |-> repos,
                         repository_names |-> names, at |-> ret.n]
          /\ repositories' = RepositoryManagerInit(config, repos, names)
    /\ UNCHANGED <<parseVars, configVars, runVars, versionVars,
                   decompilerVars, gui, constructions, otherVars>>

(***************************************************************************)
(* ConfigManager mutations.  _save_config opens the file for writing       *)
(* (which truncates it) and dumps the whole configuration; it can fail     *)
(* before the file is opened or while it is written.                       *)
(***************************************************************************)
SaveOutcomes == {"saved", "open failed", "write failed"}

NoFile == [state |-> "absent", repositories |-> <<>>]

\* a save that leaves the file as it was
_save_config_not_written(file, cfg, outcome) == file

\* a save that keeps the entries of the file the mapping does not have
_save_config_merging(file, cfg, outcome) ==
    IF outcome = "saved"
    THEN [state |-> "written",
          repositories |->
              cfg \o SelectSeq(file.repositories,
                               LAMBDA e : \A i \in 1..Len(cfg) : cfg[i].name # e.name)]
    ELSE IF outcome = "write failed" THEN [state |-> "truncated", repositories |-> <<>>]
    ELSE file

\* the file after _save_config
_save_config(file, cfg, outcome) ==
    IF outcome = "saved" THEN [state |-> "written", repositories |-> cfg]
    ELSE IF outcome = "write failed" THEN [state |-> "truncated", repositories |-> <<>>]
    ELSE file

Returned(op, value) == [op |-> op, value |-> value, n |-> ret.n + 1]

\* add_repository storing the URL as it was given
add_repository_url_as_given ==
    /\ ret.n < MaxOps
    /\ \E name \in NameInputs, url \in AddUrlInputs, outcome \in SaveOutcomes :
          LET cfg == DictSet(config, name, url)
          IN  /\ config' = cfg
              /\ config_file' = _save_config(config_file, cfg, outcome)
              /\ ret' = Returned("add", outcome = "saved")
    /\ UNCHANGED <<parseVars, managerVars, runVars, versionVars,
                   decompilerVars, gui, constructions, otherVars>>

add_repository ==
    /\ ret.n < MaxOps
    /\ \E name \in NameInputs, url \in AddUrlInputs, outcome \in SaveOutcomes :
          LET u == IF ~EndsWith(url, "/") THEN url \o <<"/">> ELSE url
              cfg == DictSet(config, name, u)
          IN  /\ config' = cfg
              /\ config_file' = _save_config(config_file, cfg, outcome)
              /\ ret' = Returned("add", outcome = "saved")
    /\ UNCHANGED <<parseVars, managerVars, runVars, versionVars,
                   decompilerVars, gui, constructions, otherVars>>

remove_repository ==
    /\ ret.n < MaxOps
    /\ \E name \in NameInputs, outcome \in SaveOutcomes :
          IF name \notin Keys(config)
          THEN /\ ret' = Returned("remove", FALSE)
               /\ UNCHANGED <<config, config_file>>
          ELSE LET cfg == DictDel(config, name)
               IN  /\ config' = cfg
                   /\ config_file' = _save_config(config_file, cfg, outcome)
                   /\ ret' = Returned("remove", outcome = "saved")
    /\ UNCHANGED <<parseVars, managerVars, runVars, versionVars,
                   decompilerVars, gui, constructions, otherVars>>

reset_to_defaults ==
    /\ ret.n < MaxOps
    /\ \E outcome \in SaveOutcomes :
          /\ config' = DEFAULT_REPOSITORIES
          /\ config_file' = _save_config(config_file, DEFAULT_REPOSITORIES, outcome)
          /\ ret' = Returned("reset", outcome = "saved")
    /\ UNCHANGED <<parseVars, managerVars, runVars, versionVars,
                   decompilerVars, gui, constructions, otherVars>>

(***************************************************************************)
(* URLs and local paths                                                    *)
(***************************************************************************)
os_sep == "/"

\* RepositoryManager.get_artifact_url.  urljoin(repo_url, reference) is kept
\* as the pair of its arguments: the base URL the request goes to and the
\* relative reference below it.
get_artifact_url(repo_url, group, artifact, version, classifier) ==
    LET group_path == Replace(group, ".", "/")
        filename == artifact \o <<"-">> \o version
                    \o (IF classifier # <<>> THEN <<"-">> \o classifier ELSE <<>>)
                    \o <<".", "jar">>
    IN  [base |-> repo_url,
         ref |-> group_path \o <<"/">> \o artifact \o <<"/">> \o version
                 \o <<"/">> \o filename]

\* posixpath.join(path, b): a component that starts with the separator
\* replaces what was joined before it
PathJoin2(path, b) ==
    IF StartsWith(b, os_sep) THEN b
    ELSE IF path = <<>> \/ EndsWith(path, os_sep) THEN path \o b
    ELSE path \o <<os_sep>> \o b

RECURSIVE os_path_join(_, _)
os_path_join(path, rest) ==
    IF rest = <<>> THEN path
    ELSE os_path_join(PathJoin2(path, Head(rest)), Tail(rest))

Classifier(k) == IF k = "sources" THEN <<"sources">> ELSE <<>>

\* filename = f"{artifact}-{version}-sources.jar" / f"{artifact}-{version}.jar"
Filename(k, artifact, version) ==
    artifact \o <<"-">> \o version
    \o (IF k = "sources" THEN <<"-sources.jar">> ELSE <<".jar">>)

\* output_path = os.path.join(output_dir, group.replace('.', os.sep),
\*                            artifact, version, filename)
OutputPath(k, out, c) ==
    os_path_join(out, <<Replace(c.group, ".", os_sep), c.artifact, c.version,
                        Filename(k, c.artifact, c.version)>>)

(***************************************************************************)
(* The existence check and the download of one file                        *)
(***************************************************************************)
\* subclasses of requests.RequestException
RequestException == {"Timeout", "ConnectionError"}

Status(n) == [exc |-> "", status_code |-> n]

Failure(e) == [exc |-> e, status_code |-> 0]

\* what a repository can answer to session.head(url, timeout=10, ...)
HeadOutcomes ==
    {Status(n) : n \in {199, 200, 399, 400}} \cup {Failure(e) : e \in RequestException}

\* the existence check taking status 400 for a hit
check_artifact_exists_incl_400(resp) ==
    IF resp.exc = ""
    THEN [raised |-> FALSE, value |-> 200 <= resp.status_code /\ resp.status_code <= 400]
    ELSE IF resp.exc \in RequestException THEN [raised |-> FALSE, value |-> FALSE]
    ELSE [raised |-> TRUE, value |-> FALSE]

\* the existence check without its except clause
check_artifact_exists_no_except(resp) ==
    IF resp.exc = ""
    THEN [raised |-> FALSE, value |-> 200 <= resp.status_code /\ resp.status_code < 400]
    ELSE [raised |-> TRUE, value |-> FALSE]

\* RepositoryManager.check_artifact_exists: the value returned, or the
\* exception that leaves it
check_artifact_exists(resp) ==
    IF resp.exc = ""
    THEN [raised |-> FALSE, value |-> 200 <= resp.status_code /\ resp.status_code < 400]
    ELSE IF resp.exc \in RequestException THEN [raised |-> FALSE, value |-> FALSE]
    ELSE [raised |-> TRUE, value |-> FALSE]

\* how download_file can end: with the body written; with an exception of
\* session.get or raise_for_status, before the file is opened; with an
\* exception while the chunks are read and written
GetOutcomes == {"ok", "HTTPError", "OSError"}

\* the files after open(output_path, 'wb') and the chunk loop: the file is
\* created or truncated as soon as it is opened
WriteFile(fs, path, url, complete) ==
    {f \in fs : f.path # path} \cup {[path |-> path, url |-> url, complete |-> complete]}

\* download_file without the return False of its except clause
download_file_no_failure(fs, url, output_path, outcome) ==
    IF outcome = "ok"
    THEN [value |-> TRUE, files |-> WriteFile(fs, output_path, url, TRUE)]
    ELSE IF outcome = "OSError"
    THEN [value |-> TRUE, files |-> WriteFile(fs, output_path, url, FALSE)]
    ELSE [value |-> TRUE, files |-> fs]

\* RepositoryManager.download_file: the value returned and the files it leaves
download_file(fs, url, output_path, outcome) ==
    IF outcome = "ok"
    THEN [value |-> TRUE, files |-> WriteFile(fs, output_path, url, TRUE)]
    ELSE IF outcome = "OSError"
    THEN [value |-> FALSE, files |-> WriteFile(fs, output_path, url, FALSE)]
    ELSE [value |-> FALSE, files |-> fs]

(***************************************************************************)
(* download_sources / download_binary, one step per request                *)
(***************************************************************************)
\* dependency strings the downloads are called with:
\* "g.h:a:1", "g.a:1", ".g:a:1", "nonsense", "g:a"
DepInputs ==
    { <<"g", ".", "h", ":", "a", ":", "1">>,
      <<"g", ".", "a", ":", "1">>,
      <<".", "g", ":", "a", ":", "1">>,
      <<"nonsense">>,
      <<"g", ":", "a">> }

OutputDirs == {<<"downloads">>}

Range(f) == {f[i] : i \in DOMAIN f}

NoResult == [some |-> FALSE, path |-> <<>>]

Some(path) == [some |-> TRUE, path |-> path]

NoCli == [at |-> "none", sources_only |-> FALSE, force_binary |-> FALSE]

\* the artifact URL the running call asks repository i for
UrlAt(i) ==
    get_artifact_url(repositories[i], parsed.group, parsed.artifact,
                     parsed.version, Classifier(kind))

\* the entry entering the for loop whatever the parser did
BeginCallNoParseCheck(k, dep, out) ==
    /\ dependency' = dep
    /\ parsed' = parse_dependency(dep)
    /\ kind' = k
    /\ output_dir' = out
    /\ idx' = 1
    /\ result' = NoResult
    /\ pc' = "loop"

\* entry of download_sources / download_binary up to the for loop: the
\* dependency is parsed, a ValueError ends the call with None
BeginCall(k, dep, out) ==
    LET p == parse_dependency(dep)
    IN  /\ dependency' = dep
        /\ parsed' = p
        /\ kind' = k
        /\ output_dir' = out
        /\ idx' = 1
        /\ result' = NoResult
        /\ pc' = IF p.ok THEN "loop" ELSE "done"

download_sources ==
    /\ pc = "idle"
    /\ cli.at = "none" /\ gui.at = "none"
    /\ rm_args.made
    /\ \E dep \in DepInputs, out \in OutputDirs : BeginCall("sources", dep, out)
    /\ UNCHANGED <<valid, configVars, managerVars, headResp, log, files, cli,
                   versionVars, decompilerVars, gui, constructions, otherVars>>

download_binary ==
    /\ pc = "idle"
    /\ cli.at = "none" /\ gui.at = "none"
    /\ rm_args.made
    /\ \E dep \in DepInputs, out \in OutputDirs : BeginCall("binary", dep, out)
    /\ UNCHANGED <<valid, configVars, managerVars, headResp, log, files, cli,
                   versionVars, decompilerVars, gui, constructions, otherVars>>

\* one turn of the for loop up to the existence check
Probe ==
    /\ pc = "loop"
    /\ idx <= Len(repositories)
    /\ \E resp \in HeadOutcomes :
          LET e == check_artifact_exists(resp)
          IN  /\ headResp' = resp
              /\ log' = Append(log, [method |-> "HEAD", url |-> UrlAt(idx), idx |-> idx,
                                     kind |-> kind, ok |-> e.value])
              /\ IF e.raised THEN pc' = "raised" /\ idx' = idx
                 ELSE IF e.value THEN pc' = "get" /\ idx' = idx
                 ELSE pc' = "loop" /\ idx' = idx + 1
    /\ UNCHANGED <<parseVars, configVars, managerVars, kind, output_dir,
                   files, result, cli, versionVars, decompilerVars, gui,
                   constructions, otherVars>>

\* the turn ending the call when download_file has failed
DownloadEndingOnFailure ==
    /\ pc = "get"
    /\ \E outcome \in GetOutcomes :
          LET output_path == OutputPath(kind, output_dir, parsed)
              d == download_file(files, UrlAt(idx), output_path, outcome)
          IN  /\ log' = Append(log, [method |-> "GET", url |-> UrlAt(idx), idx |-> idx,
                                     kind |-> kind, ok |-> d.value])
              /\ files' = d.files
              /\ pc' = "done" /\ idx' = idx
              /\ result' = IF d.value THEN Some(output_path) ELSE NoResult
    /\ UNCHANGED <<parseVars, configVars, managerVars, kind, output_dir, headResp, cli,
                   versionVars, decompilerVars, gui, constructions, otherVars>>

\* the rest of the turn: download_file, and the return when it succeeded
Download ==
    /\ pc = "get"
    /\ \E outcome \in GetOutcomes :
          LET output_path == OutputPath(kind, output_dir, parsed)
              d == download_file(files, UrlAt(idx), output_path, outcome)
          IN  /\ log' = Append(log, [method |-> "GET", url |-> UrlAt(idx), idx |-> idx,
                                     kind |-> kind, ok |-> d.value])
              /\ files' = d.files
              /\ IF d.value
                 THEN pc' = "done" /\ result' = Some(output_path) /\ idx' = idx
                 ELSE pc' = "loop" /\ result' = result /\ idx' = idx + 1
    /\ UNCHANGED <<parseVars, configVars, managerVars, kind, output_dir, headResp, cli,
                   versionVars, decompilerVars, gui, constructions, otherVars>>

\* the for loop is exhausted: return None
NotFound ==
    /\ pc = "loop"
    /\ idx > Len(repositories)
    /\ pc' = "done"
    /\ result' = NoResult
    /\ UNCHANGED <<parseVars, configVars, managerVars, kind, output_dir, idx,
                   headResp, log, files, cli, versionVars, decompilerVars, gui,
                   constructions, otherVars>>

(***************************************************************************)
(* JavaDecompiler                                                          *)
(***************************************************************************)
\* os.path.join(os.path.expanduser("~"), ".gradle_downloader", "cfr.jar")
CfrPath == <<"~/.gradle_downloader/cfr.jar">>

\* the cache file: not there, there with the whole decompiler in it, or
\* there with the part of it that was written before a download broke off
CfrFileStates == {"absent", "complete", "partial"}

\* how the acquisition of the decompiler can go: os.makedirs fails; the
\* request or raise_for_status fails; the chunk loop fails after the file
\* was opened; everything is written
EnsureOutcomes == {"makedirs failed", "ConnectionError", "HTTPError", "write failed", "ok"}

\* _ensure_cfr_available with an except clause that returns None
_ensure_cfr_available_swallowing(file, outcome) ==
    IF file # "absent" THEN [exc |-> "", file |-> file, requested |-> FALSE]
    ELSE IF outcome = "write failed"
    THEN [exc |-> "", file |-> "partial", requested |-> TRUE]
    ELSE IF outcome = "ok"
    THEN [exc |-> "", file |-> "complete", requested |-> TRUE]
    ELSE [exc |-> "", file |-> file, requested |-> outcome # "makedirs failed"]

\* _ensure_cfr_available without the test of os.path.exists(cfr_path)
_ensure_cfr_available_always_downloading(file, outcome) ==
    IF outcome = "makedirs failed"
    THEN [exc |-> "OSError", file |-> file, requested |-> FALSE]
    ELSE IF outcome \in {"ConnectionError", "HTTPError"}
    THEN [exc |-> outcome, file |-> file, requested |-> TRUE]
    ELSE IF outcome = "write failed"
    THEN [exc |-> "OSError", file |-> "partial", requested |-> TRUE]
    ELSE [exc |-> "", file |-> "complete", requested |-> TRUE]

\* JavaDecompiler._ensure_cfr_available: the exception that leaves it (""
\* when it returns cfr_path), the cache file after it, and whether the
\* download was requested
_ensure_cfr_available(file, outcome) ==
    IF file # "absent" THEN [exc |-> "", file |-> file, requested |-> FALSE]
    ELSE IF outcome = "makedirs failed"
    THEN [exc |-> "OSError", file |-> file, requested |-> FALSE]
    ELSE IF outcome \in {"ConnectionError", "HTTPError"}
    THEN [exc |-> outcome, file |-> file, requested |-> TRUE]
    ELSE IF outcome = "write failed"
    THEN [exc |-> "OSError", file |-> "partial", requested |-> TRUE]
    ELSE [exc |-> "", file |-> "complete", requested |-> TRUE]

NoDecompiler == [made |-> FALSE, cfr_path |-> <<>>, exc |-> ""]

\* JavaDecompiler.__init__(cfr_path): the object, or the exception that
\* leaves the constructor; cfr_path = None is given as <<>>
JavaDecompilerInit(cfr_path, ensured) ==
    IF cfr_path # None THEN [made |-> TRUE, cfr_path |-> cfr_path, exc |-> ""]
    ELSE IF ensured.exc = "" THEN [made |-> TRUE, cfr_path |-> CfrPath, exc |-> ""]
    ELSE [made |-> FALSE, cfr_path |-> <<>>, exc |-> ensured.exc]

\* the steps executed by a construction
ConstructionSteps(cfr_path, ensured) ==
    IF cfr_path = None /\ ensured.requested THEN <<"cfr download">> ELSE <<>>

\* what one construction did: whether cfr_path was given, the cache file
\* before and after it, whether the download was requested, and the
\* exception that left the constructor
Construction(cfr_path, before, ensured) ==
    [given |-> cfr_path # None,
     before |-> before,
     after |-> IF cfr_path = None THEN ensured.file ELSE before,
     requested |-> cfr_path = None /\ ensured.requested,
     exc |-> IF cfr_path = None THEN ensured.exc ELSE ""]

\* how subprocess.run(['java', '-version'], timeout=10) can end
JavaOutcomes == {"exit 0", "exit 1", "TimeoutExpired", "FileNotFoundError", "PermissionError"}

\* JavaDecompiler.check_java_available: the value returned, or the exception
\* that leaves it
check_java_available(outcome) ==
    IF outcome \in {"exit 0", "exit 1"} THEN [exc |-> "", value |-> outcome = "exit 0"]
    ELSE IF outcome \in {"TimeoutExpired", "FileNotFoundError"}
    THEN [exc |-> "", value |-> FALSE]
    ELSE [exc |-> outcome, value |-> FALSE]

\* how os.makedirs(output_dir) and subprocess.run(cmd, timeout=300) can end
ProcessOutcomes == {"exit 0", "exit 1", "TimeoutExpired", "OSError"}

\* files the decompiler process can leave below its output directory, each
\* with the directories it lies in and its name:
\* pkg/B.java, pkg/B.class, pkg/x.java/notes.txt, C.java.bak
FileInputs ==
    { [dir |-> << <<"pkg">> >>, name |-> <<"B", ".java">>],
      [dir |-> << <<"pkg">> >>, name |-> <<"B", ".class">>],
      [dir |-> << <<"pkg">>, <<"x", ".java">> >>, name |-> <<"notes", ".txt">>],
      [dir |-> <<>>, name |-> <<"C", ".java", ".bak">>] }

Trees == {t \in SUBSET FileInputs : Cardinality(t) <= MaxFiles}

\* JavaDecompiler.decompile_jar: the value returned or the exception that
\* leaves it, the steps executed, and whether the process ran and wrote
decompile_jar(jar_exists, java, process) ==
    IF ~jar_exists
    THEN [exc |-> "", value |-> FALSE, steps |-> <<>>, ran |-> FALSE]
    ELSE LET j == check_java_available(java)
         IN  IF j.exc # ""
             THEN [exc |-> j.exc, value |-> FALSE, steps |-> <<"java -version">>,
                   ran |-> FALSE]
             ELSE IF ~j.value
             THEN [exc |-> "", value |-> FALSE, steps |-> <<"java -version">>,
                   ran |-> FALSE]
             ELSE IF process = "OSError"
             THEN [exc |-> "", value |-> FALSE, steps |-> <<"java -version">>,
                   ran |-> FALSE]
             ELSE [exc |-> "", value |-> process = "exit 0",
                   steps |-> <<"java -version", "cfr">>, ran |-> TRUE]

\* a path as one string: its components joined by the separator
RECURSIVE Flatten(_)
Flatten(names) ==
    IF names = <<>> THEN <<>>
    ELSE IF Len(names) = 1 THEN names[1]
    ELSE names[1] \o <<os_sep>> \o Flatten(Tail(names))

\* os.walk(top): the (root, file) pairs of the tree below top
os_walk(top, tree) == {[root |-> os_path_join(top, f.dir), file |-> f.name] : f \in tree}

\* os.path.relpath(path, start) for a path below start
os_path_relpath(path, start) == SubSeq(path, Len(start) + 2, Len(path))

\* the members of the archive when every file of the tree is written to it
ArchiveMembersAnySuffix(decompiled_dir, tree) ==
    {os_path_relpath(os_path_join(w.root, <<w.file>>), decompiled_dir) :
         w \in os_walk(decompiled_dir, tree)}

\* the loop of create_sources_jar: the arc_name of every file written to the
\* archive
ArchiveMembers(decompiled_dir, tree) ==
    {os_path_relpath(os_path_join(w.root, <<w.file>>), decompiled_dir) :
         w \in {x \in os_walk(decompiled_dir, tree) : EndsWith(x.file, ".java")}}

\* how create_sources_jar can end: os.makedirs fails; writing the archive
\* fails after it was opened; the archive is written and closed
PackageOutcomes == {"makedirs failed", "write failed", "ok"}

NoArchive == [state |-> "absent", path |-> <<>>, members |-> {}]

\* JavaDecompiler.create_sources_jar: the value returned and the archive
\* file it leaves
create_sources_jar(old, decompiled_dir, tree, output_jar_path, outcome) ==
    IF outcome = "makedirs failed" THEN [value |-> FALSE, archive |-> old]
    ELSE IF outcome = "write failed"
    THEN [value |-> FALSE,
          archive |-> [state |-> "broken", path |-> output_jar_path, members |-> {}]]
    ELSE [value |-> TRUE,
          archive |-> [state |-> "written", path |-> output_jar_path,
                       members |-> ArchiveMembers(decompiled_dir, tree)]]

\* os.path.basename
os_path_basename(path) ==
    IF Contains(path, os_sep)
    THEN SubSeq(path, Max({i \in 1..Len(path) : path[i] = os_sep}) + 1, Len(path))
    ELSE path

\* sources_jar_path of decompile_and_package
SourcesJarPath(jar_path, out) ==
    LET jar_name == os_path_basename(jar_path)
        stem == IF EndsWith(jar_name, ".jar")
                THEN SubSeq(jar_name, 1, Len(jar_name) - 1) ELSE jar_name
    IN  os_path_join(out, <<stem \o <<"-sources.jar">>>>)

\* the directory tempfile.TemporaryDirectory() makes, and "decompiled" in it
TempDirPath == <<"/tmp/tmpdir">>

DecompiledDir == os_path_join(TempDirPath, <<<<"decompiled">>>>)

NoTempDir == [state |-> "none", tree |-> {}]

\* TemporaryDirectory.__exit__ leaving the directory in place
TemporaryDirectoryExitKeeping(dir) == dir

\* TemporaryDirectory.__exit__: the directory and what is in it are removed
TemporaryDirectoryExit(dir) == [state |-> "removed", tree |-> {}]

NoJar == [exists |-> FALSE, path |-> <<>>, output_dir |-> <<>>, value |-> NoResult]

\* jar files decompile_and_package is called with: one that exists and one
\* that does not
JarInputs ==
    { [exists |-> TRUE,  path |-> <<"libs", "/", "a", "-", "1", ".jar">>],
      [exists |-> FALSE, path |-> <<"libs", "/", "b", ".jar">>] }

\* entry of decompile_and_package: the temporary directory is made
BeginDecompileAndPackage(exists, jar_path, out) ==
    /\ dpc' = "decompile_jar"
    /\ jar' = [exists |-> exists, path |-> jar_path, output_dir |-> out,
               value |-> NoResult]
    /\ temp_dir' = [state |-> "exists", tree |-> {}]
    /\ dresult' = NoResult
    /\ archive' = archive

\* JavaDecompiler(cfr_path)
JavaDecompiler ==
    /\ Len(constructions) < MaxConstructions
    /\ dpc = "idle"
    /\ cli.at = "none" /\ gui.at = "none"
    /\ \E cfr_path \in {None, <<"cfr.jar">>}, outcome \in EnsureOutcomes :
          LET e == _ensure_cfr_available(cfr_file, outcome)
          IN  /\ decompiler' = JavaDecompilerInit(cfr_path, e)
              /\ cfr_file' = IF cfr_path = None THEN e.file ELSE cfr_file
              /\ steps' = steps \o ConstructionSteps(cfr_path, e)
              /\ constructions' = Append(constructions,
                                         Construction(cfr_path, cfr_file, e))
    /\ UNCHANGED <<parseVars, configVars, managerVars, runVars, versionVars,
                   callVars, gui, otherVars>>

\* decompiler.decompile_and_package(jar_path, output_dir) up to the call of
\* decompile_jar
decompile_and_package ==
    /\ decompiler.made
    /\ dpc = "idle"
    /\ cli.at = "none" /\ gui.at = "none"
    /\ \E j \in JarInputs, out \in OutputDirs :
          BeginDecompileAndPackage(j.exists, j.path, out)
    /\ UNCHANGED <<parseVars, configVars, managerVars, runVars, versionVars,
                   cfr_file, decompiler, steps, gui, constructions, otherVars>>

\* the call of decompile_jar(jar_path, decompiled_dir, callback)
DecompileJar ==
    /\ dpc = "decompile_jar"
    /\ \E java \in JavaOutcomes, process \in ProcessOutcomes, tree \in Trees :
          LET d == decompile_jar(jar.exists, java, process)
          IN  /\ steps' = steps \o d.steps
              /\ temp_dir' = [temp_dir EXCEPT !.tree = IF d.ran THEN tree ELSE {}]
              /\ dpc' = IF d.exc # "" THEN "raising"
                        ELSE IF d.value THEN "package" ELSE "cleanup"
    /\ UNCHANGED <<parseVars, configVars, managerVars, runVars, versionVars,
                   cfr_file, decompiler, jar, archive, dresult, gui,
                   constructions, otherVars>>

\* the call of create_sources_jar(decompiled_dir, sources_jar_path) and the
\* return statement that follows it
CreateSourcesJar ==
    /\ dpc = "package"
    /\ \E outcome \in PackageOutcomes :
          LET sources_jar_path == SourcesJarPath(jar.path, jar.output_dir)
              c == create_sources_jar(archive, DecompiledDir, temp_dir.tree,
                                      sources_jar_path, outcome)
          IN  /\ archive' = c.archive
              /\ jar' = [jar EXCEPT !.value = IF c.value THEN Some(sources_jar_path)
                                              ELSE NoResult]
    /\ dpc' = "cleanup"
    /\ UNCHANGED <<parseVars, configVars, managerVars, runVars, versionVars,
                   cfr_file, decompiler, temp_dir, dresult, steps, gui,
                   constructions, otherVars>>

\* the end of the with block: the temporary directory is cleaned up, then
\* decompile_and_package returns or the exception goes on to its caller
ExitTemporaryDirectory ==
    /\ dpc \in {"cleanup", "raising"}
    /\ temp_dir' = TemporaryDirectoryExit(temp_dir)
    /\ dpc' = IF dpc = "raising" THEN "raised" ELSE "done"
    /\ dresult' = jar.value
    /\ UNCHANGED <<parseVars, configVars, managerVars, runVars, versionVars,
                   cfr_file, decompiler, jar, archive, steps, gui,
                   constructions, otherVars>>

(***************************************************************************)
(* The CLI download command                                                *)
(***************************************************************************)
\* cli.download from its start to the first download call
download ==
    /\ pc = "idle"
    /\ cli.at = "none" /\ gui.at = "none"
    /\ ~rm_args.made
    /\ \E dep \in DepInputs, out \in OutputDirs,
          repos \in SeqsUpTo(UrlInputs, MaxCliRepos),
          names \in SeqsUpTo(NameInputs, MaxCliRepos),
          sources_only \in BOOLEAN, force_binary \in BOOLEAN :
          LET v == validate_dependency_format(dep)
              flags == [sources_only |-> sources_only, force_binary |-> force_binary]
              rs == RepositoryManagerInit(config, repos, names)
          IN  /\ valid' = [called |-> TRUE, value |-> v]
              /\ IF ~v \/ (sources_only /\ force_binary) \/ (repos # <<>> /\ names # <<>>)
                 THEN /\ cli' = [at |-> "exit 1"] @@ flags
                      /\ dependency' = dep
                      /\ UNCHANGED <<parsed, managerVars, pc, kind, output_dir, idx,
                                     result>>
                 ELSE /\ rm_args' = [made |-> TRUE, repositories |-> repos,
                                     repository_names |-> names, at |-> ret.n]
                      /\ repositories' = rs
                      /\ cli' = [at |-> IF force_binary THEN "binary" ELSE "sources"] @@ flags
                      /\ BeginCall(IF force_binary THEN "binary" ELSE "sources",
                                   dep, out)
    /\ UNCHANGED <<configVars, headResp, log, files, versionVars,
                   decompilerVars, gui, constructions, otherVars>>

\* cli.download going on to the binary whatever download_sources returned
download_after_sources_ignoring_result ==
    /\ cli.at = "sources"
    /\ pc = "done"
    /\ IF cli.sources_only
       THEN /\ cli' = [cli EXCEPT !.at = IF result.some THEN "exit 0" ELSE "exit 1"]
            /\ UNCHANGED <<parseVars, kind, output_dir, idx, result, pc>>
       ELSE /\ cli' = [cli EXCEPT !.at = "binary"]
            /\ valid' = valid
            /\ BeginCall("binary", dependency, output_dir)
    /\ UNCHANGED <<configVars, managerVars, headResp, log, files, versionVars,
                   decompilerVars, gui, constructions, otherVars>>

\* cli.download after download_sources has returned
download_after_sources ==
    /\ cli.at = "sources"
    /\ pc = "done"
    /\ IF result.some
       THEN /\ cli' = [cli EXCEPT !.at = "exit 0"]
            /\ UNCHANGED <<parseVars, kind, output_dir, idx, result, pc>>
       ELSE IF cli.sources_only
       THEN /\ cli' = [cli EXCEPT !.at = "exit 1"]
            /\ UNCHANGED <<parseVars, kind, output_dir, idx, result, pc>>
       ELSE /\ cli' = [cli EXCEPT !.at = "binary"]
            /\ valid' = valid
            /\ BeginCall("binary", dependency, output_dir)
    /\ UNCHANGED <<configVars, managerVars, headResp, log, files, versionVars,
                   decompilerVars, gui, constructions, otherVars>>

\* cli.download after download_binary has returned; the decompilation that
\* follows a downloaded binary is JavaDecompiler's
download_after_binary ==
    /\ cli.at = "binary"
    /\ pc = "done"
    /\ cli' = [cli EXCEPT !.at = IF result.some THEN "decompile" ELSE "exit 1"]
    /\ UNCHANGED <<parseVars, configVars, managerVars, pc, kind, output_dir, idx,
                   headResp, log, files, result, versionVars,
                   decompilerVars, gui, constructions, otherVars>>

\* cli.download: decompiler = JavaDecompiler()
download_new_decompiler ==
    /\ cli.at = "decompile"
    /\ \E outcome \in EnsureOutcomes :
          LET e == _ensure_cfr_available(cfr_file, outcome)
              d == JavaDecompilerInit(None, e)
          IN  /\ decompiler' = d
              /\ cfr_file' = e.file
              /\ steps' = steps \o ConstructionSteps(None, e)
              /\ constructions' = Append(constructions,
                                         Construction(None, cfr_file, e))
              /\ cli' = [cli EXCEPT !.at = IF d.made THEN "java" ELSE "traceback"]
    /\ UNCHANGED <<parseVars, configVars, managerVars, pc, kind, output_dir, idx,
                   headResp, log, files, result, versionVars, callVars, gui,
                   otherVars>>

\* cli.download: the check of decompiler.check_java_available() and the call
\* of decompile_and_package(binary_path, output_dir, decompile_progress)
download_check_java ==
    /\ cli.at = "java"
    /\ \E java \in JavaOutcomes :
          LET j == check_java_available(java)
          IN  /\ steps' = Append(steps, "java -version")
              /\ IF j.exc # ""
                 THEN cli' = [cli EXCEPT !.at = "traceback"] /\ UNCHANGED callVars
                 ELSE IF ~j.value
                 THEN cli' = [cli EXCEPT !.at = "exit 1"] /\ UNCHANGED callVars
                 ELSE /\ cli' = [cli EXCEPT !.at = "decompiling"]
                      /\ BeginDecompileAndPackage(\E f \in files : f.path = result.path,
                                                  result.path, output_dir)
    /\ UNCHANGED <<parseVars, configVars, managerVars, pc, kind, output_dir, idx,
                   headResp, log, files, result, versionVars, cfr_file,
                   decompiler, gui, constructions, otherVars>>

\* cli.download after decompile_and_package has returned
download_after_decompile ==
    /\ cli.at = "decompiling"
    /\ dpc \in {"done", "raised"}
    /\ cli' = [cli EXCEPT !.at = IF dpc = "raised" THEN "traceback"
                                 ELSE IF dresult.some THEN "exit 0" ELSE "exit 1"]
    /\ UNCHANGED <<parseVars, configVars, managerVars, pc, kind, output_dir, idx,
                   headResp, log, files, result, versionVars, decompilerVars, gui,
                   constructions, otherVars>>

(***************************************************************************)
(* The GUI main window and its download worker                             *)
(***************************************************************************)
NoGui == [at |-> "none", sources_only |-> FALSE]

\* the entry of the repository selector that stands for every repository
AllRepositories == "all"

\* MainWindow.__init__: the core components are made when the window is
\* made; an exception of JavaDecompiler() leaves the constructor
MainWindow ==
    /\ gui.at = "none" /\ cli.at = "none"
    /\ pc = "idle" /\ vpc = "idle" /\ dpc = "idle"
    /\ ~rm_args.made
    /\ ~decompiler.made /\ decompiler.exc = ""
    /\ rm_args' = [made |-> TRUE, repositories |-> <<>>, repository_names |-> <<>>,
                   at |-> ret.n]
    /\ repositories' = RepositoryManagerInit(config, <<>>, <<>>)
    /\ \E outcome \in EnsureOutcomes :
          LET e == _ensure_cfr_available(cfr_file, outcome)
              d == JavaDecompilerInit(None, e)
          IN  /\ decompiler' = d
              /\ cfr_file' = e.file
              /\ steps' = steps \o ConstructionSteps(None, e)
              /\ constructions' = Append(constructions,
                                         Construction(None, cfr_file, e))
              /\ gui' = [gui EXCEPT !.at = IF d.made THEN "ready" ELSE "traceback"]
    /\ UNCHANGED <<parseVars, configVars, runVars, versionVars, callVars,
                   otherVars>>

\* MainWindow.start_download and the start of download_worker, up to its
\* call of download_sources
start_download ==
    /\ gui.at = "ready"
    /\ pc = "idle"
    /\ \E dep \in DepInputs \cup {<<" ">>}, out \in OutputDirs,
          selected \in NameInputs \cup {AllRepositories}, sources_only \in BOOLEAN :
          LET d == Strip(dep)
              v == validate_dependency_format(d)
              names == IF selected # AllRepositories THEN <<selected>> ELSE <<>>
          IN  /\ dependency' = d
              /\ IF d = <<>>
                 THEN UNCHANGED <<parsed, valid, managerVars, pc, kind, output_dir, idx,
                                  result, gui>>
                 ELSE /\ valid' = [called |-> TRUE, value |-> v]
                      /\ IF ~v
                         THEN UNCHANGED <<parsed, managerVars, pc, kind, output_dir,
                                          idx, result, gui>>
                         ELSE /\ rm_args' = [made |-> TRUE, repositories |-> <<>>,
                                             repository_names |-> names, at |-> ret.n]
                              /\ repositories' = RepositoryManagerInit(config, <<>>, names)
                              /\ gui' = [at |-> "sources", sources_only |-> sources_only]
                              /\ BeginCall("sources", d, out)
    /\ UNCHANGED <<configVars, headResp, log, files, cli, versionVars, decompilerVars,
                   constructions, otherVars>>

\* download_worker after download_sources has returned
download_worker_after_sources ==
    /\ gui.at = "sources"
    /\ pc = "done"
    /\ IF result.some
       THEN /\ gui' = [gui EXCEPT !.at = "success"]
            /\ UNCHANGED <<parseVars, kind, output_dir, idx, result, pc>>
       ELSE IF gui.sources_only
       THEN /\ gui' = [gui EXCEPT !.at = "warning"]
            /\ UNCHANGED <<parseVars, kind, output_dir, idx, result, pc>>
       ELSE /\ gui' = [gui EXCEPT !.at = "binary"]
            /\ valid' = valid
            /\ BeginCall("binary", dependency, output_dir)
    /\ UNCHANGED <<configVars, managerVars, headResp, log, files, cli, versionVars,
                   decompilerVars, constructions, otherVars>>

\* download_worker after download_binary has returned: the check of
\* self.decompiler.check_java_available() and the call of
\* decompile_and_package(binary_path, output_dir); except Exception catches
\* what is raised
download_worker_after_binary ==
    /\ gui.at = "binary"
    /\ pc = "done"
    /\ IF ~result.some
       THEN gui' = [gui EXCEPT !.at = "error"] /\ UNCHANGED <<callVars, steps>>
       ELSE \E java \in JavaOutcomes :
               LET j == check_java_available(java)
               IN  /\ steps' = Append(steps, "java -version")
                   /\ IF j.exc # "" \/ ~j.value
                      THEN gui' = [gui EXCEPT !.at = "error"] /\ UNCHANGED callVars
                      ELSE /\ gui' = [gui EXCEPT !.at = "decompiling"]
                           /\ BeginDecompileAndPackage(
                                  \E f \in files : f.path = result.path,
                                  result.path, output_dir)
    /\ UNCHANGED <<parseVars, configVars, managerVars, runVars, versionVars,
                   cfr_file, decompiler, constructions, otherVars>>

\* download_worker after decompile_and_package has returned
download_worker_after_decompile ==
    /\ gui.at = "decompiling"
    /\ dpc \in {"done", "raised"}
    /\ gui' = [gui EXCEPT !.at = IF dpc = "done" /\ dresult.some THEN "success"
                                 ELSE "error"]
    /\ UNCHANGED <<parseVars, configVars, managerVars, runVars, versionVars,
                   decompilerVars, constructions, otherVars>>

(***************************************************************************)
(* RepositoryManager.find_available_versions                               *)
(***************************************************************************)
\* the characters of a version string, in code point order
CodePoints == <<".", "0", "1", "9">>

Ord(c) == CHOOSE i \in 1..Len(CodePoints) : CodePoints[i] = c

\* version strings a repository can list: "1.9", "1.10", "9.0", "10.0"
VersionTexts ==
    { <<"1", ".", "9">>, <<"1", ".", "1", "0">>,
      <<"9", ".", "0">>, <<"1", "0", ".", "0">> }

\* a < b on Python strings
RECURSIVE StrLess(_, _)
StrLess(a, b) ==
    IF b = <<>> THEN FALSE
    ELSE IF a = <<>> THEN TRUE
    ELSE IF Head(a) = Head(b) THEN StrLess(Tail(a), Tail(b))
    ELSE Ord(Head(a)) < Ord(Head(b))

RemoveAt(list, i) == SubSeq(list, 1, i - 1) \o SubSeq(list, i + 1, Len(list))

\* sorted(list, reverse=True): the greatest string first; equal strings keep
\* their order
RECURSIVE sorted_reverse(_)
sorted_reverse(list) ==
    IF list = <<>> THEN <<>>
    ELSE LET m == CHOOSE i \in 1..Len(list) :
                      /\ \A j \in 1..Len(list) : ~StrLess(list[i], list[j])
                      /\ \A j \in 1..(i - 1) : StrLess(list[j], list[i])
         IN  <<list[m]>> \o sorted_reverse(RemoveAt(list, m))

\* the body of a metadata response: not well-formed XML, or a document with
\* or without a versioning element, a versions element below it, and the
\* texts of the version elements below that (<<>> for an element without text)
Malformed_XML ==
    [wellformed |-> FALSE, versioning |-> FALSE, versions |-> FALSE, version |-> <<>>]

Document(versioning, versions_elem, texts) ==
    [wellformed |-> TRUE, versioning |-> versioning, versions |-> versions_elem,
     version |-> texts]

MetadataContents ==
    {Malformed_XML, Document(FALSE, FALSE, <<>>), Document(TRUE, FALSE, <<>>)}
    \cup {Document(TRUE, TRUE, t) : t \in SeqsUpTo(VersionTexts \cup {<<>>}, MaxVersions)}

\* what a repository can answer to session.get(metadata_url, timeout=10)
MetadataOutcomes ==
    {[exc |-> e, status_code |-> 0, content |-> Malformed_XML] : e \in RequestException}
    \cup {[exc |-> "", status_code |-> n, content |-> c] :
             n \in {200, 404}, c \in MetadataContents}

\* for version in ...findall('version'):
\*     if version.text and version.text not in versions: versions.append(...)
RECURSIVE AppendNew(_, _)
AppendNew(vs, texts) ==
    IF texts = <<>> THEN vs
    ELSE AppendNew(IF Head(texts) # <<>> /\ Head(texts) \notin Range(vs)
                   THEN Append(vs, Head(texts)) ELSE vs,
                   Tail(texts))

\* what the try block of one turn does with a response: the list after it,
\* or the exception raised in it
TryMetadata(vs, response) ==
    IF response.exc # "" THEN [exc |-> response.exc, versions |-> vs]
    ELSE IF response.status_code = 200
    THEN IF ~response.content.wellformed THEN [exc |-> "ParseError", versions |-> vs]
         ELSE IF response.content.versioning /\ response.content.versions
         THEN [exc |-> "", versions |-> AppendNew(vs, response.content.version)]
         ELSE [exc |-> "", versions |-> vs]
    ELSE [exc |-> "", versions |-> vs]

\* one turn of the for loop reading the document whatever the status
merge_versions_any_status(vs, response) ==
    LET t == TryMetadata(vs, [response EXCEPT !.status_code = 200])
    IN  [raised |-> FALSE, versions |-> t.versions]

\* one turn of the for loop of find_available_versions: the list after the
\* answer of one repository; except Exception catches whatever the try
\* block raised and logs a warning
merge_versions(vs, response) ==
    LET t == TryMetadata(vs, response)
    IN  [raised |-> FALSE, versions |-> t.versions]

NothingSeen == [reported |-> {}, failed |-> {}, texts |-> 0]

\* the record of the answers: the version strings listed in parsable
\* documents served with status 200, how many such strings were listed,
\* and the ways the other repositories failed
See(s, response) ==
    IF response.exc # ""
    THEN [s EXCEPT !.failed = @ \cup {"network error"}]
    ELSE IF response.status_code # 200
    THEN [s EXCEPT !.failed = @ \cup {"non-200 status"}]
    ELSE IF ~response.content.wellformed
    THEN [s EXCEPT !.failed = @ \cup {"malformed XML"}]
    ELSE LET listed == SelectSeq(response.content.version, LAMBDA t : t # <<>>)
         IN  [s EXCEPT !.reported = @ \cup Range(listed),
                       !.texts = @ + Len(listed)]

\* entry of find_available_versions: versions = []
find_available_versions ==
    /\ vpc = "idle"
    /\ pc = "idle"
    /\ cli.at = "none" /\ gui.at = "none"
    /\ rm_args.made
    /\ versions' = <<>>
    /\ vidx' = 1
    /\ seen' = NothingSeen
    /\ vresult' = <<>>
    /\ vpc' = "loop"
    /\ UNCHANGED <<parseVars, configVars, managerVars, runVars,
                   decompilerVars, gui, constructions, otherVars>>

\* one turn of its for loop
FetchMetadata ==
    /\ vpc = "loop"
    /\ vidx <= Len(repositories)
    /\ \E response \in MetadataOutcomes :
          LET m == merge_versions(versions, response)
          IN  /\ versions' = m.versions
              /\ seen' = See(seen, response)
              /\ IF m.raised THEN vpc' = "raised" /\ vidx' = vidx
                 ELSE vpc' = "loop" /\ vidx' = vidx + 1
    /\ UNCHANGED <<parseVars, configVars, managerVars, runVars, vresult,
                   decompilerVars, gui, constructions, otherVars>>

\* return sorted(versions, reverse=True)
ReturnVersions ==
    /\ vpc = "loop"
    /\ vidx > Len(repositories)
    /\ vresult' = sorted_reverse(versions)
    /\ vpc' = "done"
    /\ UNCHANGED <<parseVars, configVars, managerVars, runVars, versions, vidx, seen,
                   decompilerVars, gui, constructions, otherVars>>

(***************************************************************************)
(* The parser and the validator applied to any string                      *)
(***************************************************************************)
ParseDependency ==
    /\ ~parsed.called
    /\ parsed' = parse_dependency(dependency)
    /\ UNCHANGED <<dependency, valid, configVars, managerVars, runVars,
                   versionVars, decompilerVars, gui, constructions, otherVars>>

ValidateDependencyFormat ==
    /\ ~valid.called
    /\ valid' = [called |-> TRUE, value |-> validate_dependency_format(dependency)]
    /\ UNCHANGED <<dependency, parsed, configVars, managerVars, runVars,
                   versionVars, decompilerVars, gui, constructions, otherVars>>

(***************************************************************************)
(* The MCP tools add_repository and remove_repository                      *)
(***************************************************************************)
NoResponse == [tool |-> "none", success |-> FALSE]

\* the dictionary a tool returns: its try block returns "success": True
\* whatever the ConfigManager method returned, its except clause returns
\* "success": False
ToolResponse(tool, raised) == [tool |-> tool, success |-> ~raised]

\* the tool add_repository(name, url): config_manager.add_repository is
\* called and its result is dropped; the method raises nothing
mcp_add_repository ==
    /\ ret.n < MaxOps
    /\ \E name \in NameInputs, url \in AddUrlInputs, outcome \in SaveOutcomes :
          LET u == IF ~EndsWith(url, "/") THEN url \o <<"/">> ELSE url
              cfg == DictSet(config, name, u)
          IN  /\ config' = cfg
              /\ config_file' = _save_config(config_file, cfg, outcome)
              /\ ret' = Returned("add", outcome = "saved")
    /\ mcp' = ToolResponse("add_repository", FALSE)
    /\ UNCHANGED <<parseVars, managerVars, runVars, versionVars,
                   decompilerVars, gui, constructions, peer, transfer, win>>

\* the tool remove_repository(name), in the same way
mcp_remove_repository ==
    /\ ret.n < MaxOps
    /\ \E name \in NameInputs, outcome \in SaveOutcomes :
          IF name \notin Keys(config)
          THEN /\ ret' = Returned("remove", FALSE)
               /\ UNCHANGED <<config, config_file>>
          ELSE LET cfg == DictDel(config, name)
               IN  /\ config' = cfg
                   /\ config_file' = _save_config(config_file, cfg, outcome)
                   /\ ret' = Returned("remove", outcome = "saved")
    /\ mcp' = ToolResponse("remove_repository", FALSE)
    /\ UNCHANGED <<parseVars, managerVars, runVars, versionVars,
                   decompilerVars, gui, constructions, peer, transfer, win>>

(***************************************************************************)
(* A second process on the same configuration file                         *)
(***************************************************************************)
MaxPeerOps == 2    \* mutations each of the two processes makes beside the other

NoPeer == [started |-> FALSE, config |-> <<>>, op |-> "none", value |-> FALSE,
           n |-> 0]

\* what the second process adds and removes
PeerNameInputs == {"jcenter", "custom"}

PeerUrlInputs == {<<"http://mirror">>}

\* ConfigManager._load_config: the mapping of the file when it exists and
\* json.load reads it, the defaults otherwise
_load_config(file) ==
    IF file.state = "written" THEN file.repositories ELSE DEFAULT_REPOSITORIES

PeerReturned(op, value) == [peer EXCEPT !.op = op, !.value = value, !.n = peer.n + 1]

\* the start of the second process: its ConfigManager() loads the file
peer_ConfigManager ==
    /\ ~peer.started
    /\ peer' = [peer EXCEPT !.started = TRUE, !.config = _load_config(config_file)]
    /\ UNCHANGED <<parseVars, configVars, managerVars, runVars, versionVars,
                   decompilerVars, gui, constructions, mcp, transfer, win>>

\* add_repository(name, url) in the second process
peer_add_repository ==
    /\ peer.started
    /\ peer.n < MaxPeerOps
    /\ \E name \in PeerNameInputs, url \in PeerUrlInputs, outcome \in SaveOutcomes :
          LET u == IF ~EndsWith(url, "/") THEN url \o <<"/">> ELSE url
              cfg == DictSet(peer.config, name, u)
          IN  /\ peer' = [PeerReturned("add", outcome = "saved") EXCEPT !.config = cfg]
              /\ config_file' = _save_config(config_file, cfg, outcome)
    /\ UNCHANGED <<parseVars, config, ret, managerVars, runVars, versionVars,
                   decompilerVars, gui, constructions, mcp, transfer, win>>

\* remove_repository(name) in the second process
peer_remove_repository ==
    /\ peer.started
    /\ peer.n < MaxPeerOps
    /\ \E name \in PeerNameInputs, outcome \in SaveOutcomes :
          IF name \notin Keys(peer.config)
          THEN /\ peer' = PeerReturned("remove", FALSE)
               /\ UNCHANGED config_file
          ELSE LET cfg == DictDel(peer.config, name)
               IN  /\ peer' = [PeerReturned("remove", outcome = "saved")
                                  EXCEPT !.config = cfg]
                   /\ config_file' = _save_config(config_file, cfg, outcome)
    /\ UNCHANGED <<parseVars, config, ret, managerVars, runVars, versionVars,
                   decompilerVars, gui, constructions, mcp, transfer, win>>

(***************************************************************************)
(* RepositoryManager.download_file, chunk by chunk                         *)
(***************************************************************************)
MaxChunk == 2      \* most bytes in one chunk of iter_content
MaxChunks == 3     \* most chunks in one response body

\* the Content-Length header of a response: absent, or its text
ContentLengthInputs == {None, <<"0">>, <<"3">>, <<"1", "0">>, <<"x">>}

\* int(response.headers.get('content-length', 0)): the number, or ValueError
content_length(header) ==
    IF header = None THEN [exc |-> "", value |-> 0]
    ELSE IF \A i \in 1..Len(header) : header[i] \in Range(Digits)
    THEN [exc |-> "", value |-> Number(header)]
    ELSE [exc |-> "ValueError", value |-> 0]

\* how the call can go up to the chunk loop: session.get or raise_for_status
\* raises; os.makedirs or open raises; the file is opened
OpenOutcomes == {"ConnectionError", "HTTPError", "OSError", "ok"}

NoTransfer ==
    [pc |-> "idle", callback |-> FALSE, header |-> None, total_size |-> 0,
     exists |-> FALSE, written |-> 0, downloaded |-> 0, chunks |-> <<>>,
     calls |-> <<>>, value |-> FALSE]

\* one turn of the chunk loop reporting the length of the chunk
write_chunk_reporting_length(t, chunk) ==
    IF chunk = 0 THEN [t EXCEPT !.chunks = Append(t.chunks, chunk)]
    ELSE [t EXCEPT !.chunks = Append(t.chunks, chunk),
                   !.written = t.written + chunk,
                   !.downloaded = t.downloaded + chunk,
                   !.calls = IF t.callback
                             THEN Append(t.calls, [bytesDownloaded |-> chunk,
                                                   totalBytes |-> t.total_size])
                             ELSE t.calls]

\* one turn of the chunk loop, for a chunk of the given length
write_chunk(t, chunk) ==
    IF chunk = 0 THEN [t EXCEPT !.chunks = Append(t.chunks, chunk)]
    ELSE [t EXCEPT !.chunks = Append(t.chunks, chunk),
                   !.written = t.written + chunk,
                   !.downloaded = t.downloaded + chunk,
                   !.calls = IF t.callback
                             THEN Append(t.calls,
                                         [bytesDownloaded |-> t.downloaded + chunk,
                                          totalBytes |-> t.total_size])
                             ELSE t.calls]

\* download_file(url, output_path, callback) up to the chunk loop
download_file_open ==
    /\ transfer.pc = "idle"
    /\ \E outcome \in OpenOutcomes, header \in ContentLengthInputs,
          callback \in BOOLEAN :
          LET c == content_length(header)
          IN  transfer' =
                  IF outcome \in {"ConnectionError", "HTTPError"}
                  THEN [transfer EXCEPT !.pc = "done", !.callback = callback]
                  ELSE IF c.exc # "" \/ outcome = "OSError"
                  THEN [transfer EXCEPT !.pc = "done", !.callback = callback,
                                        !.header = header]
                  ELSE [transfer EXCEPT !.pc = "chunks", !.callback = callback,
                                        !.header = header, !.total_size = c.value,
                                        !.exists = TRUE]
    /\ UNCHANGED <<parseVars, configVars, managerVars, runVars, versionVars,
                   decompilerVars, gui, constructions, mcp, peer, win>>

\* one turn of the chunk loop, or the exception that ends it
download_file_chunk ==
    /\ transfer.pc = "chunks"
    /\ Len(transfer.chunks) < MaxChunks
    /\ \/ \E chunk \in 0..MaxChunk : transfer' = write_chunk(transfer, chunk)
       \/ transfer' = [transfer EXCEPT !.pc = "done"]
    /\ UNCHANGED <<parseVars, configVars, managerVars, runVars, versionVars,
                   decompilerVars, gui, constructions, mcp, peer, win>>

\* the body is exhausted: the file is closed and True is returned
download_file_return ==
    /\ transfer.pc = "chunks"
    /\ transfer' = [transfer EXCEPT !.pc = "done", !.value = TRUE]
    /\ UNCHANGED <<parseVars, configVars, managerVars, runVars, versionVars,
                   decompilerVars, gui, constructions, mcp, peer, win>>

(***************************************************************************)
(* The main window's threads: the interface thread runs the handlers of    *)
(* the buttons and the callbacks scheduled with after(); every worker is   *)
(* a thread of its own, one step per widget call or group of widget calls  *)
(***************************************************************************)
MaxThreads == 2    \* number of worker threads started in one behaviour

Interface == "interface thread"

Worker == "worker thread"

NoWindow ==
    [download_button |-> "normal", decompile_button |-> "normal",
     search_button |-> "normal", status |-> "ready", threads |-> <<>>,
     ui |-> {}, pending |-> <<>>]

\* the widget calls made by the code running in a thread
Updates(w, thread, updates) ==
    [w EXCEPT !.ui = @ \cup {[update |-> u, thread |-> thread] : u \in updates}]

Started(w, target) ==
    [w EXCEPT !.threads = Append(@, [target |-> target, pc |-> "begin",
                                     path |-> "none"])]

\* thread i of the window going on to a position
At(w, i, position) == [w EXCEPT !.threads[i].pc = position]

\* the threads of a target that have been started and have not ended
Alive(target) ==
    {i \in 1..Len(win.threads) :
         win.threads[i].target = target /\ win.threads[i].pc # "ended"}

\* what the dependency field holds when the download button is pressed
FieldInputs == DepInputs \cup {<<" ">>}

\* the ways out of the try block of download_worker, with the message box
\* each one shows
ExitPaths ==
    { [path |-> "sources found", box |-> "showinfo"],
      [path |-> "sources-only miss", box |-> "showwarning"],
      [path |-> "binary miss", box |-> "showerror"],
      [path |-> "Java missing", box |-> "showerror"],
      [path |-> "decompiled", box |-> "showinfo"],
      [path |-> "decompile failed", box |-> "showerror"],
      [path |-> "exception", box |-> "showerror"] }

\* MainWindow.start_download, the command of the download button: it runs on
\* the interface thread when the button is pressed and is not disabled
gui_start_download ==
    /\ win.download_button = "normal"
    /\ Len(win.threads) < MaxThreads
    /\ \E field \in FieldInputs :
          LET dep == Strip(field)
          IN  IF dep = <<>> \/ ~validate_dependency_format(dep)
              THEN win' = Updates(win, Interface, {"showerror"})
              ELSE win' = Started([Updates(win, Interface, {"download_button"})
                                      EXCEPT !.download_button = "disabled"],
                                  "download_worker")
    /\ UNCHANGED <<parseVars, configVars, managerVars, runVars, versionVars,
                   decompilerVars, gui, constructions, mcp, peer, transfer>>

\* download_worker up to its call of download_sources
gui_download_worker_begin ==
    /\ \E i \in 1..Len(win.threads) :
          /\ win.threads[i].target = "download_worker"
          /\ win.threads[i].pc = "begin"
          /\ win' = [At(Updates(win, Worker, {"download_log", "status"}), i, "try")
                        EXCEPT !.status = "downloading"]
    /\ UNCHANGED <<parseVars, configVars, managerVars, runVars, versionVars,
                   decompilerVars, gui, constructions, mcp, peer, transfer>>

\* the rest of its try block, with the except clause: the way out, its log
\* line and its message box
gui_download_worker_try ==
    /\ \E i \in 1..Len(win.threads), e \in ExitPaths :
          /\ win.threads[i].target = "download_worker"
          /\ win.threads[i].pc = "try"
          /\ win' = [At(Updates(win, Worker, {"download_log", e.box}), i, "finally")
                        EXCEPT !.threads[i].path = e.path]
    /\ UNCHANGED <<parseVars, configVars, managerVars, runVars, versionVars,
                   decompilerVars, gui, constructions, mcp, peer, transfer>>

\* the first statement of its finally clause
gui_download_worker_enable ==
    /\ \E i \in 1..Len(win.threads) :
          /\ win.threads[i].target = "download_worker"
          /\ win.threads[i].pc = "finally"
          /\ win' = [At(Updates(win, Worker, {"download_button"}), i, "status")
                        EXCEPT !.download_button = "normal"]
    /\ UNCHANGED <<parseVars, configVars, managerVars, runVars, versionVars,
                   decompilerVars, gui, constructions, mcp, peer, transfer>>

\* the second statement of its finally clause, after which the thread ends
gui_download_worker_ready ==
    /\ \E i \in 1..Len(win.threads) :
          /\ win.threads[i].target = "download_worker"
          /\ win.threads[i].pc = "status"
          /\ win' = [At(Updates(win, Worker, {"status"}), i, "ended")
                        EXCEPT !.status = "ready"]
    /\ UNCHANGED <<parseVars, configVars, managerVars, runVars, versionVars,
                   decompilerVars, gui, constructions, mcp, peer, transfer>>

\* MainWindow.start_decompile, the command of the decompile button
gui_start_decompile ==
    /\ win.decompile_button = "normal"
    /\ Len(win.threads) < MaxThreads
    /\ \E j \in JarInputs \cup {[exists |-> FALSE, path |-> <<>>]} :
          IF ~j.exists
          THEN win' = Updates(win, Interface, {"showerror"})
          ELSE win' = Started([Updates(win, Interface, {"decompile_button"})
                                  EXCEPT !.decompile_button = "disabled"],
                              "decompile_worker")
    /\ UNCHANGED <<parseVars, configVars, managerVars, runVars, versionVars,
                   decompilerVars, gui, constructions, mcp, peer, transfer>>

\* the try block of decompile_worker with its except clause
gui_decompile_worker_try ==
    /\ \E i \in 1..Len(win.threads), box \in {"showinfo", "showerror"} :
          /\ win.threads[i].target = "decompile_worker"
          /\ win.threads[i].pc = "begin"
          /\ win' = [At(Updates(win, Worker, {"decompile_log", "status", box}),
                        i, "finally")
                        EXCEPT !.status = "decompiling"]
    /\ UNCHANGED <<parseVars, configVars, managerVars, runVars, versionVars,
                   decompilerVars, gui, constructions, mcp, peer, transfer>>

\* its finally clause, after which the thread ends
gui_decompile_worker_finally ==
    /\ \E i \in 1..Len(win.threads) :
          /\ win.threads[i].target = "decompile_worker"
          /\ win.threads[i].pc = "finally"
          /\ win' = [At(Updates(win, Worker, {"decompile_button", "status"}),
                        i, "ended")
                        EXCEPT !.decompile_button = "normal", !.status = "ready"]
    /\ UNCHANGED <<parseVars, configVars, managerVars, runVars, versionVars,
                   decompilerVars, gui, constructions, mcp, peer, transfer>>

\* SearchDialog.search, the command of the search button and the binding of
\* the Return key of the search field
gui_search ==
    /\ Len(win.threads) < MaxThreads
    /\ \E by \in {"button", "Return"}, query \in {<<>>, <<"a">>} :
          /\ by = "button" => win.search_button = "normal"
          /\ IF query = <<>>
             THEN win' = win
             ELSE win' = Started([Updates(win, Interface, {"tree", "search_button"})
                                     EXCEPT !.search_button = "disabled"],
                                 "search_worker")
    /\ UNCHANGED <<parseVars, configVars, managerVars, runVars, versionVars,
                   decompilerVars, gui, constructions, mcp, peer, transfer>>

\* SearchDialog.search_worker: the results or the error are handed to the
\* interface thread with self.dialog.after(0, ...), and the thread ends
gui_search_worker ==
    /\ \E i \in 1..Len(win.threads),
          callback \in {"update_results", "search_error"} :
          /\ win.threads[i].target = "search_worker"
          /\ win.threads[i].pc = "begin"
          /\ win' = [At(win, i, "ended") EXCEPT !.pending = Append(@, callback)]
    /\ UNCHANGED <<parseVars, configVars, managerVars, runVars, versionVars,
                   decompilerVars, gui, constructions, mcp, peer, transfer>>

\* the main loop running the first callback scheduled with after():
\* update_results or search_error
gui_after ==
    /\ win.pending # <<>>
    /\ LET shown == IF Head(win.pending) = "update_results" THEN "tree"
                    ELSE "showerror"
       IN  win' = [Updates(win, Interface, {shown, "search_button"})
                      EXCEPT !.search_button = "normal", !.pending = Tail(@)]
    /\ UNCHANGED <<parseVars, configVars, managerVars, runVars, versionVars,
                   decompilerVars, gui, constructions, mcp, peer, transfer>>

(***************************************************************************)
(* Specifications                                                          *)
(***************************************************************************)
InitRest ==
    /\ parsed = NotCalled
    /\ valid = [called |-> FALSE, value |-> FALSE]
    /\ config = DEFAULT_REPOSITORIES
    /\ config_file = NoFile
    /\ ret = [op |-> "none", value |-> FALSE, n |-> 0]
    /\ rm_args = NoManager
    /\ repositories = <<>>
    /\ pc = "idle"
    /\ kind = "sources"
    /\ output_dir = <<>>
    /\ idx = 1
    /\ headResp = Status(0)
    /\ log = <<>>
    /\ files = {}
    /\ result = NoResult
    /\ cli = NoCli
    /\ versions = <<>>
    /\ vpc = "idle"
    /\ vidx = 1
    /\ seen = NothingSeen
    /\ vresult = <<>>
    /\ decompiler = NoDecompiler
    /\ dpc = "idle"
    /\ jar = NoJar
    /\ temp_dir = NoTempDir
    /\ archive = NoArchive
    /\ dresult = NoResult
    /\ steps = <<>>
    /\ gui = NoGui
    /\ constructions = <<>>
    /\ mcp = NoResponse
    /\ peer = NoPeer
    /\ transfer = NoTransfer
    /\ win = NoWindow

\* a process that has loaded the default configuration and downloads
Init == dependency = <<>> /\ cfr_file = "absent" /\ InitRest

\* the same with any state of the decompiler's cache file
InitCache == dependency = <<>> /\ cfr_file \in CfrFileStates /\ InitRest

Next ==
    \/ NewRepositoryManager
    \/ download_sources
    \/ download_binary
    \/ Probe
    \/ Download
    \/ NotFound
    \/ download
    \/ download_after_sources
    \/ download_after_binary
    \/ download_new_decompiler
    \/ download_check_java
    \/ download_after_decompile
    \/ MainWindow
    \/ start_download
    \/ download_worker_after_sources
    \/ download_worker_after_binary
    \/ download_worker_after_decompile
    \/ DecompileJar
    \/ CreateSourcesJar
    \/ ExitTemporaryDirectory

Spec == Init /\ [][Next]_vars

\* the parser and the validator on every string up to MaxLen characters
InitParse == dependency \in Strings /\ cfr_file = "absent" /\ InitRest

NextParse == ParseDependency \/ ValidateDependencyFormat

SpecParse == InitParse /\ [][NextParse]_vars

\* the configuration and the resolver
NextConfig ==
    \/ add_repository
    \/ remove_repository
    \/ reset_to_defaults
    \/ NewRepositoryManager

SpecConfig == Init /\ [][NextConfig]_vars

\* a manager and one listing of the versions of an artifact
NextVersions ==
    \/ NewRepositoryManager
    \/ find_available_versions
    \/ FetchMetadata
    \/ ReturnVersions

SpecVersions == Init /\ [][NextVersions]_vars

\* a decompiler object and one decompile_and_package on it
NextDecompile ==
    \/ JavaDecompiler
    \/ decompile_and_package
    \/ DecompileJar
    \/ CreateSourcesJar
    \/ ExitTemporaryDirectory

SpecDecompile == InitCache /\ [][NextDecompile]_vars

\* the MCP server's repository tools on the configuration
NextMcp ==
    \/ mcp_add_repository
    \/ mcp_remove_repository

SpecMcp == Init /\ [][NextMcp]_vars

\* two processes on one configuration file, each making up to MaxPeerOps
\* mutations
NextTwo ==
    \/ ret.n < MaxPeerOps /\ add_repository
    \/ ret.n < MaxPeerOps /\ remove_repository
    \/ peer_ConfigManager
    \/ peer_add_repository
    \/ peer_remove_repository

SpecTwo == Init /\ [][NextTwo]_vars

\* one download_file call with its progress callback
NextTransfer ==
    \/ download_file_open
    \/ download_file_chunk
    \/ download_file_return

SpecTransfer == Init /\ [][NextTransfer]_vars

\* the window's buttons and its worker threads
NextWindow ==
    \/ gui_start_download
    \/ gui_download_worker_begin
    \/ gui_download_worker_try
    \/ gui_download_worker_enable
    \/ gui_download_worker_ready
    \/ gui_start_decompile
    \/ gui_decompile_worker_try
    \/ gui_decompile_worker_finally
    \/ gui_search
    \/ gui_search_worker
    \/ gui_after

SpecWindow == Init /\ [][NextWindow]_vars

(***************************************************************************)
(* Properties of the parser (checked under SpecParse)                      *)
(***************************************************************************)
\* positions of character c in s
Positions(s, c) == {i \in 1..Len(s) : s[i] = c}

\* the dots left of the only colon of a one-colon string
DotsLeft(s) == {k \in Positions(s, ".") : k < Min(Positions(s, ":"))}

\* the strings the parser is to reject: not one or two colons, or one colon
\* and no dot on its left
Malformed(s) ==
    \/ Cardinality(Positions(s, ":")) \notin {1, 2}
    \/ Cardinality(Positions(s, ":")) = 1 /\ DotsLeft(s) = {}

\* C2: on a two-colon string g:a:v parse_dependency returns (g, a, v), the
\* text before, between and after the colons; on a one-colon string L:v with
\* a dot in L it returns L up to its last dot, L after its last dot, and v.
C2_ParseMatchesReference ==
    parsed.called =>
        LET d == dependency
            cs == Positions(d, ":")
        IN  /\ Cardinality(cs) = 2 =>
                 /\ parsed.ok
                 /\ parsed.group = SubSeq(d, 1, Min(cs) - 1)
                 /\ parsed.artifact = SubSeq(d, Min(cs) + 1, Max(cs) - 1)
                 /\ parsed.version = SubSeq(d, Max(cs) + 1, Len(d))
            /\ (Cardinality(cs) = 1 /\ DotsLeft(d) # {}) =>
                 /\ parsed.ok
                 /\ parsed.group = SubSeq(d, 1, Max(DotsLeft(d)) - 1)
                 /\ parsed.artifact = SubSeq(d, Max(DotsLeft(d)) + 1, Min(cs) - 1)
                 /\ parsed.version = SubSeq(d, Min(cs) + 1, Len(d))

\* a one-colon string with two dots on the left has been parsed into a
\* group that keeps a dot
C2_Witness ==
    /\ parsed.called /\ parsed.ok
    /\ Cardinality(Positions(dependency, ":")) = 1
    /\ Cardinality(DotsLeft(dependency)) = 2
    /\ Contains(parsed.group, ".")
    /\ parsed.artifact # <<>>

\* C3: parse_dependency returns a triple or raises ValueError and nothing
\* else; it raises exactly on the malformed strings.
C3_RejectsExactlyMalformed ==
    parsed.called =>
        /\ parsed.ok \/ parsed.exc = "ValueError"
        /\ ~parsed.ok <=> Malformed(dependency)

\* a one-colon string without a dot on the left has been rejected
C3_Witness ==
    /\ parsed.called /\ ~parsed.ok /\ parsed.exc = "ValueError"
    /\ Cardinality(Positions(dependency, ":")) = 1
    /\ dependency[1] # ":"

\* C4: a coordinate returned by parse_dependency for a string that
\* validate_dependency_format accepted has a non-empty group, a non-empty
\* artifact and a non-empty version.
C4_FieldsNonEmpty ==
    (parsed.called /\ parsed.ok /\ valid.called /\ valid.value) =>
        /\ parsed.group # <<>>
        /\ parsed.artifact # <<>>
        /\ parsed.version # <<>>

(***************************************************************************)
(* Properties of the downloads (checked under Spec)                        *)
(***************************************************************************)
\* the requests of the running call, by method and list position
Requests(method, i) ==
    {p \in 1..Len(log) : log[p].method = method /\ log[p].kind = kind /\ log[p].idx = i}

\* the existence check of the running call succeeded at list position i
HostsAt(i) == \E p \in Requests("HEAD", i) : log[p].ok

\* download_file of the running call succeeded at list position i
FetchedAt(i) == \E p \in Requests("GET", i) : log[p].ok

HasReturnedPath == pc = "done" /\ result.some

\* the local file the running call has returned
ReturnedFile == CHOOSE f \in files : f.path = result.path

\* C1 as claimed: when the existence check succeeded at the first and at the
\* second repository of the list, the artifact returned comes from the
\* first repository's URL.
C1_FirstHostServes ==
    (HasReturnedPath /\ Len(repositories) >= 2 /\ HostsAt(1) /\ HostsAt(2)) =>
        ReturnedFile.url.base = repositories[1]

\* C1 as amended: the artifact returned comes from the first repository of
\* the list at which the existence check and the download both succeeded;
\* every repository before it was probed and failed one of the two, and no
\* repository after it received a request.
C1_FirstSuccessServes ==
    HasReturnedPath =>
        \E i \in 1..Len(repositories) :
            /\ HostsAt(i) /\ FetchedAt(i)
            /\ \E f \in files :
                  f.path = result.path /\ f.complete /\ f.url = UrlAt(i)
            /\ \A j \in 1..(i - 1) :
                  Requests("HEAD", j) # {} /\ ~(HostsAt(j) /\ FetchedAt(j))
            /\ \A j \in (i + 1)..Len(repositories) :
                  Requests("HEAD", j) = {} /\ Requests("GET", j) = {}

\* the first and the second of three repositories host the artifact, the
\* download from the first failed, and the second one served it
C1_Witness ==
    /\ HasReturnedPath
    /\ Len(repositories) = 3
    /\ HostsAt(1) /\ ~FetchedAt(1)
    /\ HostsAt(2) /\ FetchedAt(2)
    /\ ReturnedFile.url.base = repositories[2]
    /\ repositories[2] # repositories[1]

\* C5: a call with a malformed dependency string returns None and has issued
\* no HTTP request, and the CLI command given one is at its error exit with
\* no request issued.
C5_MalformedNoRequest ==
    (dependency # <<>> /\ Malformed(dependency)) =>
        /\ log = <<>>
        /\ pc \in {"idle", "done"}
        /\ pc = "done" => ~result.some
        /\ cli.at \in {"none", "exit 1"}

\* download_sources has returned None for "g:a" on a manager with three
\* repositories
C5_Witness ==
    /\ pc = "done" /\ ~result.some /\ cli.at = "none"
    /\ parsed.called /\ ~parsed.ok
    /\ dependency = <<"g", ":", "a">>
    /\ Len(repositories) = 3
    /\ log = <<>>

LastHead == Max({p \in 1..Len(log) : log[p].method = "HEAD"})

\* C7: the existence check says "exists" exactly for a status in [200,400);
\* after a check that said no, a network failure included, the call has not
\* raised and goes on with the next list position.
C7_ExistsIffStatus ==
    (\E p \in 1..Len(log) : log[p].method = "HEAD") =>
        /\ log[LastHead].ok <=>
               (headResp.exc = "" /\ headResp.status_code \in 200..399)
        /\ pc # "raised"
        /\ \A p \in 1..Len(log) :
              (log[p].method = "HEAD" /\ ~log[p].ok) =>
                  IF p < Len(log)
                  THEN log[p + 1].method = "HEAD"
                       /\ (log[p + 1].kind = log[p].kind => log[p + 1].idx = log[p].idx + 1)
                       /\ (log[p + 1].kind # log[p].kind => log[p].idx = Len(repositories))
                  ELSE (log[p].kind = kind /\ pc \in {"loop", "done"}
                            /\ idx = log[p].idx + 1)
                       \/ (log[p].kind # kind /\ log[p].idx = Len(repositories))

\* the first repository timed out and the second one has been probed
C7_Witness ==
    /\ Len(log) = 2
    /\ log[1].method = "HEAD" /\ ~log[1].ok /\ log[1].idx = 1
    /\ log[2].method = "HEAD" /\ log[2].idx = 2 /\ log[2].ok
    /\ headResp = Status(399)

\* the path of the deterministic path formula
PathFormula(k, out, g, a, v) ==
    out \o <<os_sep>> \o Replace(g, ".", os_sep) \o <<os_sep>> \o a \o <<os_sep>> \o v
        \o <<os_sep>> \o a \o <<"-">> \o v
        \o (IF k = "sources" THEN <<"-sources.jar">> ELSE <<".jar">>)

\* C10: the path returned is r/<g with dots replaced by separators>/a/v/
\* a-v-sources.jar (a-v.jar for the binary), and a file holding a completed
\* download is at that path.
C10_PathFormula ==
    HasReturnedPath =>
        /\ result.path = PathFormula(kind, output_dir, parsed.group,
                                     parsed.artifact, parsed.version)
        /\ \E f \in files : f.path = result.path /\ f.complete

(***************************************************************************)
(* Properties of the resolver (checked under SpecConfig)                   *)
(***************************************************************************)
\* a RepositoryManager exists and the configuration has not been mutated
\* since it was constructed
Resolved == rm_args.made /\ rm_args.at = ret.n

ByName == Resolved /\ rm_args.repositories = <<>> /\ rm_args.repository_names # <<>>

\* position of a name in the configuration
ConfigIndex(name) == CHOOSE i \in 1..Len(config) : config[i].name = name

\* the names asked for that are configured, in the order asked
KnownNames == SelectSeq(rm_args.repository_names, LAMBDA n : n \in Keys(config))

\* C8 as claimed: the resolved list is the explicit list when one is given,
\* and follows the configuration iteration order when names are given and
\* when nothing is given.
C8_ConfigOrderByName ==
    Resolved =>
        /\ rm_args.repositories # <<>> => repositories = rm_args.repositories
        /\ (rm_args.repositories = <<>> /\ rm_args.repository_names = <<>>)
              => repositories = UrlOf(config)
        /\ ByName =>
              \A i, j \in 1..Len(repositories) :
                  i < j => \E p, q \in 1..Len(config) :
                              /\ p <= q
                              /\ config[p].url = repositories[i]
                              /\ config[q].url = repositories[j]

\* C8 as amended: the resolved list is the explicit list when one is given,
\* the configuration iteration order when nothing is given, and the order
\* of the given names when names are given.
C8_InputOrderByName ==
    Resolved =>
        /\ rm_args.repositories # <<>> => repositories = rm_args.repositories
        /\ (rm_args.repositories = <<>> /\ rm_args.repository_names = <<>>)
              => repositories = UrlOf(config)
        /\ ByName =>
              /\ Len(repositories) = Len(KnownNames)
              /\ \A i \in 1..Len(KnownNames) :
                    repositories[i] = config[ConfigIndex(KnownNames[i])].url

\* with maven-central configured before jcenter, the names [jcenter,
\* maven-central] have been resolved to jcenter's URL before maven-central's
C8_Witness ==
    /\ ByName
    /\ rm_args.repository_names = <<"jcenter", "maven-central">>
    /\ Len(repositories) = 2
    /\ repositories[1] = config[ConfigIndex("jcenter")].url
    /\ repositories[2] = config[ConfigIndex("maven-central")].url
    /\ repositories[1] # repositories[2]
    /\ ConfigIndex("maven-central") < ConfigIndex("jcenter")

\* C9: resolving names returns a list (nothing is raised) that holds one URL
\* for each given name that is configured and nothing for the others.
C9_UnknownNamesSkipped ==
    ByName =>
        /\ Len(repositories) =
              Cardinality({i \in 1..Len(rm_args.repository_names) :
                              rm_args.repository_names[i] \in Keys(config)})
        /\ \A n \in Range(rm_args.repository_names) :
              n \in Keys(config) =>
                  \E i \in 1..Len(repositories) :
                      repositories[i] = config[ConfigIndex(n)].url
        /\ \A i \in 1..Len(repositories) :
              \E n \in Range(rm_args.repository_names) \cap Keys(config) :
                  repositories[i] = config[ConfigIndex(n)].url

\* an unknown name followed by a configured one has been resolved to the
\* configured one's URL alone
C9_Witness ==
    /\ ByName
    /\ Len(rm_args.repository_names) = 2
    /\ rm_args.repository_names[1] \notin Keys(config)
    /\ rm_args.repository_names[2] \in Keys(config)
    /\ repositories = <<config[ConfigIndex(rm_args.repository_names[2])].url>>

(***************************************************************************)
(* Properties of the version listing (checked under SpecVersions)          *)
(***************************************************************************)
NoDuplicates(list) == Cardinality(Range(list)) = Len(list)

\* C11: find_available_versions is not aborted by a failing repository: it
\* asks every repository and returns; what it returns has no duplicates and
\* holds exactly the version strings listed in the parsable documents that
\* were served with status 200.
C11_UnionOfParsable ==
    /\ vpc \in {"idle", "loop", "done"}
    /\ vpc = "done" =>
          /\ vidx = Len(repositories) + 1
          /\ Range(vresult) = seen.reported
          /\ NoDuplicates(vresult)

\* of three repositories one has failed and the two others have listed four
\* version strings, three of them distinct; the three have been returned
C11_Witness ==
    /\ vpc = "done"
    /\ Len(repositories) = 3
    /\ seen.failed # {}
    /\ seen.texts = 4
    /\ Cardinality(seen.reported) = 3
    /\ Len(vresult) = 3

\* the numbers between the dots of a version string
Components(v) == LET parts == Split(v, ".") IN [i \in 1..Len(parts) |-> Number(parts[i])]

\* version a is newer than version b: at the first component where they
\* differ a has the greater number
RECURSIVE Greater(_, _)
Greater(x, y) ==
    IF x = <<>> THEN FALSE
    ELSE IF y = <<>> THEN TRUE
    ELSE IF Head(x) = Head(y) THEN Greater(Tail(x), Tail(y))
    ELSE Head(x) > Head(y)

Newer(a, b) == Greater(Components(a), Components(b))

\* C12: in the list find_available_versions returns, of any two versions the
\* newer one by version-number comparison comes first.
C12_NewestFirst ==
    vpc = "done" =>
        \A i, j \in 1..Len(vresult) : Newer(vresult[i], vresult[j]) => i < j

(***************************************************************************)
(* Properties of the configuration (checked under SpecConfig)              *)
(***************************************************************************)
\* C18: after any sequence of add_repository, remove_repository and
\* reset_to_defaults from the default configuration, every stored URL ends
\* with "/" and no name is stored twice.
C18_UrlsEndWithSlash ==
    /\ \A i \in 1..Len(config) : EndsWith(config[i].url, "/")
    /\ \A i, j \in 1..Len(config) : config[i].name = config[j].name => i = j

\* a URL given without the final "/" has been added under a default name and
\* a default repository has been removed
C18_Witness ==
    /\ ret.n = 2
    /\ get_repository_url(config, "jcenter") = <<"http://mirror", "/">>
    /\ "maven-central" \notin Keys(config)
    /\ Len(config) = 2

\* C19: when the last add_repository, remove_repository or reset_to_defaults
\* returned True, the file has been written by it and its repositories
\* mapping is the mapping in memory.
C19_FileEqualsMemory ==
    (ret.n > 0 /\ ret.value) =>
        /\ config_file.state = "written"
        /\ config_file.repositories = config

\* a repository has been added and a default one removed after it; the
\* removal returned True and the file holds both changes
C19_Witness ==
    /\ ret.n = 2 /\ ret.op = "remove" /\ ret.value
    /\ "custom" \in Keys(config)
    /\ "jcenter" \notin Keys(config)
    /\ config_file.repositories = config
    /\ Len(config_file.repositories) = 3

(***************************************************************************)
(* The validator against the parser (checked under SpecParse)              *)
(***************************************************************************)
\* C20: a string parse_dependency rejects is a string
\* validate_dependency_format returns False for.
C20_RejectedNotValidated ==
    (parsed.called /\ valid.called /\ ~parsed.ok) => ~valid.value

\* a one-colon string with no dot on the left and a version on the right has
\* been rejected by the parser and by the validator
C20_Witness ==
    /\ parsed.called /\ ~parsed.ok
    /\ valid.called /\ ~valid.value
    /\ Cardinality(Positions(dependency, ":")) = 1
    /\ DotsLeft(dependency) = {}
    /\ dependency[1] = "g"
    /\ dependency[Len(dependency)] = "a"

(***************************************************************************)
(* Properties of the decompiler (checked under SpecDecompile)              *)
(***************************************************************************)
\* C13: no exception leaves the construction of a JavaDecompiler or
\* decompile_and_package, and a decompile_and_package in which a step failed
\* returns None.
C13_FailuresAsResults ==
    /\ decompiler.exc = ""
    /\ dpc # "raised"
    /\ (dpc = "done" /\ archive.state # "written") => ~dresult.some

\* C14: when decompile_and_package has returned, or has been left by an
\* exception, the temporary directory it made is removed.
C14_ScratchRemoved ==
    dpc \in {"done", "raised"} => temp_dir.state = "removed"

\* the decompiler process has run, packaging its output has failed, and
\* decompile_and_package has returned None with the directory removed
C14_Witness ==
    /\ dpc = "done"
    /\ ~dresult.some
    /\ \E n \in 1..Len(steps) : steps[n] = "cfr"
    /\ archive.state = "broken"
    /\ temp_dir.state = "removed"

\* the path of a file of the tree relative to the root of the tree
RelativePath(f) == Flatten(Append(f.dir, f.name))

\* C15: when create_sources_jar has returned True, the members of the
\* archive are the relative paths of the files of the decompiled tree whose
\* name ends in ".java", and of no other file.
C15_MembersAreJavaFiles ==
    (dpc = "cleanup" /\ jar.value.some) =>
        /\ archive.state = "written"
        /\ archive.members =
              {RelativePath(f) : f \in {g \in temp_dir.tree : g.name[Len(g.name)] = ".java"}}

\* a tree holding pkg/B.java and pkg/B.class has been packed into an archive
\* whose only member is pkg/B.java
C15_Witness ==
    /\ dpc = "cleanup" /\ jar.value.some
    /\ Cardinality(temp_dir.tree) = 2
    /\ \A f \in temp_dir.tree : f.dir = << <<"pkg">> >> /\ f.name[1] = "B"
    /\ archive.members = {<<"pkg", "/", "B", ".java">>}

(***************************************************************************)
(* Properties of a download run with its fallback (checked under Spec)     *)
(***************************************************************************)
\* the requests for one kind of artifact
RequestsFor(k) == {p \in 1..Len(log) : log[p].kind = k}

\* the run of a front end has ended in success
RunSucceeded == cli.at = "exit 0" \/ gui.at = "success"

\* the run of a front end has ended without success
RunFailed == cli.at = "exit 1" \/ gui.at \in {"warning", "error"}

\* C16: a run that has ended in success with the sources artifact downloaded
\* has requested no binary and has executed no step of the decompilation
\* fallback: no acquisition of the decompiler, no toolchain check, no
\* decompiler process.
C16_SourcesNoFallback ==
    (RunSucceeded /\ kind = "sources" /\ result.some) =>
        /\ RequestsFor("binary") = {}
        /\ steps = <<>>

\* the sources lookup of the run has failed at every repository of the list
SourcesFailedEverywhere ==
    \A i \in 1..Len(repositories) :
        \E p \in RequestsFor("sources") :
            /\ log[p].idx = i /\ log[p].method = "HEAD"
            /\ ~log[p].ok
               \/ \E q \in RequestsFor("sources") :
                     log[q].idx = i /\ log[q].method = "GET" /\ ~log[q].ok

\* the run is a front end's, and its download_binary has returned None
BinaryFailed ==
    /\ cli.at # "none" \/ gui.at \notin {"none", "ready", "traceback"}
    /\ kind = "binary" /\ pc = "done" /\ ~result.some

\* the run was told to stop at the sources, and its download_sources has
\* returned None
SourcesOnlyFailed ==
    /\ \/ cli.at \notin {"none", "exit 1"} /\ cli.sources_only
       \/ gui.at \notin {"none", "ready", "traceback"} /\ gui.sources_only
    /\ kind = "sources" /\ pc = "done" /\ ~result.some

\* C17: when the decompiler process has been started, the sources lookup
\* had failed at every repository or had been skipped by --force-binary, and
\* download_binary had returned the path of a downloaded file; a run whose
\* binary download failed, or that was to stop at the sources and found
\* none, starts no decompiler process and has no other end than failure.
C17_DecompilerOnlyAfterBinary ==
    /\ (\E n \in 1..Len(steps) : steps[n] = "cfr") =>
          /\ kind = "binary" /\ pc = "done" /\ result.some
          /\ \E f \in files : f.path = result.path /\ f.complete
          /\ IF cli.force_binary THEN RequestsFor("sources") = {}
             ELSE SourcesFailedEverywhere
    /\ (BinaryFailed \/ SourcesOnlyFailed) =>
          /\ \A n \in 1..Len(steps) : steps[n] # "cfr"
          /\ ~RunSucceeded
          /\ cli.at \in {"none", "sources", "binary", "exit 1"}
          /\ gui.at \in {"none", "sources", "binary", "warning", "error"}

\* a command line run over three repositories has not found the sources,
\* has downloaded the binary, has run the decompiler and has ended in success
C17_Witness ==
    /\ cli.at = "exit 0"
    /\ ~cli.force_binary
    /\ Len(repositories) = 3
    /\ kind = "binary" /\ result.some
    /\ \E n \in 1..Len(steps) : steps[n] = "cfr"
    /\ dresult.some
    /\ Cardinality(RequestsFor("sources")) > 3

(***************************************************************************)
(* Order of the toolchain check and the decompiler acquisition (Spec)      *)
(***************************************************************************)
\* the positions of a step in the steps executed so far
StepsOf(s) == {n \in 1..Len(steps) : steps[n] = s}

\* C21: the decompiler binary is requested only after a toolchain check has
\* been made and has succeeded: every download request for the decompiler
\* follows a run of `java -version`, and a run that ends because Java is
\* missing has requested no decompiler binary.
C21_EnsureAfterJavaCheck ==
    /\ \A n \in StepsOf("cfr download") :
          \E m \in StepsOf("java -version") : m < n
    /\ (cli.at = "exit 1" /\ StepsOf("java -version") # {}) =>
          StepsOf("cfr download") = {}

(***************************************************************************)
(* Properties of the trial loop (checked under Spec)                       *)
(***************************************************************************)
\* download_file of the running call was called at list position i and
\* returned False
FetchFailedAt(i) == \E p \in Requests("GET", i) : ~log[p].ok

\* C24: a download that fails after a successful existence check does not
\* end the call: the next repository of the list is probed next, unless the
\* list is exhausted; the call returns None only when every repository of
\* the list was probed and failed the existence check or the download; and
\* after a successful download no request of the same call follows.
C24_FailedDownloadGoesOn ==
    /\ \A i \in 1..(Len(repositories) - 1) :
          FetchFailedAt(i) =>
              \/ pc = "loop" /\ idx = i + 1
              \/ Requests("HEAD", i + 1) # {}
    /\ (pc = "done" /\ parsed.ok /\ ~result.some) =>
          \A i \in 1..Len(repositories) :
              /\ Requests("HEAD", i) # {}
              /\ ~HostsAt(i) \/ FetchFailedAt(i)
    /\ \A p \in 1..Len(log) :
          (log[p].method = "GET" /\ log[p].ok) =>
              \A q \in (p + 1)..Len(log) : log[q].kind # log[p].kind

\* a call over two or more repositories has returned None after the first
\* repository passed the existence check and failed the download and the
\* second one was probed
C24_Witness ==
    /\ pc = "done" /\ parsed.ok /\ ~result.some
    /\ Len(repositories) >= 2
    /\ HostsAt(1) /\ FetchFailedAt(1)
    /\ Requests("HEAD", 2) # {}

(***************************************************************************)
(* Failed mutations of the configuration (checked under SpecConfig)        *)
(***************************************************************************)
\* C29: a mutation that returned False has left the in-memory mapping as it
\* was before the call; stated for the first mutation of a process, whose
\* mapping before the call is the one it loaded, DEFAULT_REPOSITORIES.
C29_FailedMutationInvisible ==
    (ret.n = 1 /\ ret.op \in {"add", "remove", "reset"} /\ ~ret.value) =>
        config = DEFAULT_REPOSITORIES

(***************************************************************************)
(* The decompiler's cache file over several constructions (SpecDecompile)  *)
(***************************************************************************)
\* the constructions that took the default path and so ensured the cache file
Ensuring == {i \in 1..Len(constructions) : ~constructions[i].given}

\* the constructions whose download of the decompiler ran to completion
Downloaded ==
    {i \in Ensuring : constructions[i].requested /\ constructions[i].after = "complete"}

\* C22: over the constructions without an explicit cfr_path, at most one
\* has downloaded the decompiler to completion, and a construction that
\* found a file at the cache path has reused it: it has issued no download
\* request and has left the file as it found it, as has every construction
\* after it.
C22_DownloadedAtMostOnce ==
    /\ Cardinality(Downloaded) <= 1
    /\ \A i \in Ensuring :
          constructions[i].before # "absent" =>
              /\ ~constructions[i].requested
              /\ constructions[i].exc = ""
              /\ constructions[i].after = constructions[i].before
              /\ \A j \in Ensuring : j > i => ~constructions[j].requested

\* the first construction has downloaded the decompiler to the cache path,
\* the second one has found it there and has requested nothing
C22_Witness ==
    /\ Len(constructions) >= 2
    /\ Ensuring = 1..Len(constructions)
    /\ constructions[1].before = "absent" /\ constructions[1].requested
    /\ constructions[1].after = "complete"
    /\ constructions[2].before = "complete" /\ ~constructions[2].requested
    /\ decompiler.made /\ decompiler.cfr_path = CfrPath

\* C23: a construction whose download of the decompiler failed has left no
\* file at the cache path, and the construction that follows it requests
\* the download again.
C23_NoFileAfterFailedDownload ==
    \A i \in Ensuring :
        (constructions[i].requested /\ constructions[i].exc # "") =>
            /\ constructions[i].after = "absent"
            /\ \A j \in Ensuring :
                  (j > i /\ \A k \in Ensuring : ~(i < k /\ k < j)) =>
                      constructions[j].requested

(***************************************************************************)
(* The answers of the MCP repository tools (checked under SpecMcp)         *)
(***************************************************************************)
\* C30: a tool that has answered "success": True has changed the
\* configuration and persisted it: the ConfigManager method it called
\* returned True and the file holds the in-memory mapping.
C30_SuccessMeansPersisted ==
    (mcp.tool # "none" /\ mcp.success) =>
        /\ ret.value
        /\ config_file.state = "written"
        /\ config_file.repositories = config

(***************************************************************************)
(* Two processes on one configuration file (checked under SpecTwo)         *)
(***************************************************************************)
\* the file holding exactly the mapping cfg
WrittenFrom(file, cfg) == file.state = "written" /\ file.repositories = cfg

\* C26: nothing coordinates the two processes: whenever the file changes,
\* it was cut short by a failed write, or it has become the whole in-memory
\* mapping of the process whose call wrote it, whatever it held before.
C26_WriterRewritesWholeFile ==
    [][config_file' # config_file =>
          \/ config_file'.state = "truncated"
          \/ ret' # ret /\ peer' = peer /\ WrittenFrom(config_file', config')
          \/ peer' # peer /\ ret' = ret /\ WrittenFrom(config_file', peer'.config)]_vars

\* a lost update: both processes had loaded the defaults, the first one's
\* add_repository("custom", ...) returned True, then the second one's
\* add_repository("jcenter", ...) returned True, and the file holds the
\* second one's mapping, without "custom"
C26_Witness ==
    /\ ret.n = 1 /\ ret.op = "add" /\ ret.value
    /\ peer.n = 1 /\ peer.op = "add" /\ peer.value
    /\ "custom" \in Keys(config)
    /\ WrittenFrom(config_file, peer.config)
    /\ "custom" \notin Keys(config_file.repositories)
    /\ DictGet(config_file.repositories, "jcenter") = <<"http://mirror", "/">>

(***************************************************************************)
(* The progress callback of download_file (checked under SpecTransfer)     *)
(***************************************************************************)
\* the non-empty chunks read so far, in order
NonEmptyChunks == SelectSeq(transfer.chunks, LAMBDA n : n > 0)

\* the bytes of the first k of a sequence of chunks
RECURSIVE BytesOf(_, _)
BytesOf(chunks, k) == IF k = 0 THEN 0 ELSE BytesOf(chunks, k - 1) + chunks[k]

\* the number the Content-Length header states, 0 when there is none
StatedLength == IF transfer.header = None THEN 0 ELSE Number(transfer.header)

\* C25: the callback has been called once for each non-empty chunk written,
\* and never for an empty one; the k-th call got the bytes of the first k
\* non-empty chunks, so more than the call before it, and got the
\* Content-Length header's number, or 0 without the header; when True has
\* been returned, the last call got the size of the file.
C25_ProgressIsCumulative ==
    /\ Len(transfer.calls) = IF transfer.callback THEN Len(NonEmptyChunks) ELSE 0
    /\ \A k \in 1..Len(transfer.calls) :
          /\ transfer.calls[k].bytesDownloaded = BytesOf(NonEmptyChunks, k)
          /\ transfer.calls[k].totalBytes = StatedLength
          /\ k > 1 => transfer.calls[k].bytesDownloaded
                          > transfer.calls[k - 1].bytesDownloaded
    /\ (transfer.pc = "done" /\ transfer.value /\ transfer.calls # <<>>) =>
          transfer.calls[Len(transfer.calls)].bytesDownloaded = transfer.written

\* a download with a callback and the header Content-Length: 10 has
\* returned True after a chunk of two bytes, an empty chunk and a chunk of
\* one byte: two calls, (2, 10) and (3, 10)
C25_Witness ==
    /\ transfer.pc = "done" /\ transfer.value /\ transfer.callback
    /\ transfer.header = <<"1", "0">>
    /\ transfer.chunks = <<2, 0, 1>>
    /\ transfer.calls = << [bytesDownloaded |-> 2, totalBytes |-> 10],
                           [bytesDownloaded |-> 3, totalBytes |-> 10] >>
    /\ transfer.written = 3

(***************************************************************************)
(* Threads and widgets of the main window (checked under SpecWindow)       *)
(***************************************************************************)
\* C27: every widget call of a download, a decompilation or a search (log
\* insertion, message box, button state, status text, result list) is made
\* by code running on the interface thread.
C27_UpdatesOnInterfaceThread ==
    \A u \in win.ui : u.thread = Interface

\* C28: at most one download worker is alive at any time, and when every
\* worker that was started has ended, the download button is enabled and
\* the status reads ready.
C28_OneDownloadWorker ==
    /\ Cardinality(Alive("download_worker")) <= 1
    /\ (win.threads # <<>> /\ \A i \in 1..Len(win.threads) :
                                  win.threads[i].pc = "ended") =>
          /\ win.download_button = "normal"
          /\ win.status = "ready"

====
